---- MODULE Spec2Model ----
(***************************************************************************)
(* Model of the PHP parser: the recursive-descent/Pratt parser of          *)
(* trunk_parser/src/parser.rs (specification Spec) and the trait-use       *)
(* production of src/parser/internal/traits.rs (specification SpecUsage).  *)
(*                                                                         *)
(* A production is an operator from (tokens, cursor) to a result record    *)
(*   [st, pos, val, err, raised]                                           *)
(* st = "ok" (val is the node, pos the cursor after it), "err" (err is the *)
(* ParseError, pos the cursor when it was raised) or "panic" (a todo!()    *)
(* was hit).  raised is the first error any sub-production raised, also    *)
(* when a caller later discarded it.                                       *)
(***************************************************************************)
EXTENDS Integers, Sequences, FiniteSets, TLC

VARIABLES
    tokens,     \* the input token sequence
    pos,        \* the cursor: index of the current token (Len + 1 is Eof)
    ast,        \* the nodes produced so far
    outcome,    \* "running", "ok" (Ok returned), "err" (Err returned), "panic"
    err,        \* the error returned
    raised,     \* the first error any production raised
    consumed,   \* indices of the tokens skipped as tags or consumed by statements
    state,      \* the parser State: [attributes, scopes], the attribute buffer
                \* and the scope stack
    production, \* the arm the statement dispatcher took last
    scoped_releases_on_error,
                \* the expansion of scoped!, which the parse does not change:
                \* TRUE when State::exit also runs for an error that leaves
                \* the block, FALSE when the error leaves the function first
    default_token_is_eof
                \* Token::default() of trunk_lexer, which the parse does not
                \* change: TRUE when its kind is Eof, FALSE when it is a kind
                \* of its own and the lexer ends the tokens with an Eof token

vars == <<tokens, pos, ast, outcome, err, raised, consumed, state, production,
          scoped_releases_on_error, default_token_is_eof>>

(***************************************************************************)
(* Bounds of the checked inputs.                                           *)
(***************************************************************************)
MaxLen == 3
MaxOps == 2
MaxMembers == 2
MaxMods == 2

(***************************************************************************)
(* Tokens.  A token is [kind, val]; val is the payload of Identifier,      *)
(* Variable, Int and InlineHtml and "" otherwise.  The input ends with  *)
(* the Eof token, at cursor Len + 1; once the iterator is exhausted the    *)
(* stream yields Token::default().                                         *)
(***************************************************************************)
T(k) == [kind |-> k, val |-> ""]
Ident(n) == [kind |-> "Identifier", val |-> n]
Var(n) == [kind |-> "Variable", val |-> n]
IntTok(v) == [kind |-> "Int", val |-> v]
Html(h) == [kind |-> "InlineHtml", val |-> h]
EofToken == T("Eof")

\* Token::default(): the Eof token, or a token of a kind of its own.
DefaultToken == IF default_token_is_eof THEN EofToken ELSE T("Default")

Cur(toks, p) ==
    IF p \in 1..Len(toks) THEN toks[p]
    ELSE IF p = Len(toks) + 1 THEN EofToken
    ELSE DefaultToken

is_eof(toks, p) == Cur(toks, p).kind = "Eof"

\* next(): current = peek; peek = iter.next().unwrap_or_default().
\* Advancing at Eof moves to Token::default(), and advancing there stays
\* there: cursor Len + 2 when the default token is not the Eof token, and
\* cursor Len + 1, the same token, when it is.
next(toks, p) ==
    IF p <= Len(toks) THEN p + 1
    ELSE IF default_token_is_eof THEN Len(toks) + 1
    ELSE Len(toks) + 2

(***************************************************************************)
(* Errors and results.                                                     *)
(***************************************************************************)
NoError == [kind |-> "None", msg |-> ""]
ExpectedToken(m) == [kind |-> "ExpectedToken", msg |-> m]
UnexpectedEndOfFile == [kind |-> "UnexpectedEndOfFile", msg |-> ""]
InvalidClassStatement ==
    [kind |-> "InvalidClassStatement",
     msg |-> "Classes can only contain properties, constants and methods."]

Ok(p, v) == [st |-> "ok", pos |-> p, val |-> v, err |-> NoError, raised |-> NoError]
Err(p, e) == [st |-> "err", pos |-> p, val |-> <<>>, err |-> e, raised |-> e]
Panic(p) == [st |-> "panic", pos |-> p, val |-> <<>>, err |-> NoError, raised |-> NoError]

\* r, remembering that `first` was raised before it.
Carry(first, r) == IF first.kind # "None" THEN [r EXCEPT !.raised = first] ELSE r

\* The `?` operator and the early return of expect!: go on with F when r is
\* Ok, hand r to the caller otherwise.
Bind(r, F(_)) == IF r.st = "ok" THEN F(r) ELSE r

\* expect!(parser, kind, [out,] message)
expect(toks, p, k, m) ==
    IF Cur(toks, p).kind = k
    THEN Ok(next(toks, p), Cur(toks, p).val)
    ELSE Err(p, ExpectedToken(m))

(***************************************************************************)
(* Expression helpers.                                                     *)
(***************************************************************************)
is_method_visibility_modifier(k) == k \in {"Public", "Protected", "Private", "Static"}

visibility_token_to_flag(k) ==
    CASE k = "Public" -> "Public"
      [] k = "Protected" -> "Protected"
      [] k = "Private" -> "Private"
      [] k = "Static" -> "Static"

\* op.into(): TokenKind -> InfixOp
InfixOp(k) ==
    CASE k = "Plus" -> "Add"
      [] k = "Minus" -> "Sub"
      [] k = "LessThan" -> "LessThan"

infix(lhs, op, rhs) == [kind |-> "Infix", lhs |-> lhs, op |-> InfixOp(op), rhs |-> rhs]

\* Option<(u8, u8)>: <<>> is None, <<l, r>> is Some((l, r)).
infix_binding_power_flat(k) ==
    CASE k \in {"Plus", "Minus"} -> <<9, 10>>
      [] k = "LessThan" -> <<9, 10>>
      [] OTHER -> <<>>

infix_binding_power(k) ==
    CASE k \in {"Plus", "Minus"} -> <<11, 12>>
      [] k = "LessThan" -> <<9, 10>>
      [] OTHER -> <<>>

\* Option<u8>: <<>> is None, <<l>> is Some(l).
postfix_binding_power(k) ==
    CASE k = "LeftParen" -> <<19>>
      [] OTHER -> <<>>

RECURSIVE statement(_, _)
RECURSIVE expression(_, _, _)
RECURSIVE expression_loop(_, _, _, _)
RECURSIVE postfix_args(_, _, _)
RECURSIVE block_loop(_, _, _)
RECURSIVE class_loop(_, _, _)
RECURSIVE echo_loop(_, _, _)

\* postfix(), LeftParen arm: the argument loop.
postfix_args(toks, p, args) ==
    IF ~is_eof(toks, p) /\ Cur(toks, p).kind # "RightParen"
    THEN Bind(expression(toks, p, 0), LAMBDA r :
              postfix_args(toks,
                           IF Cur(toks, r.pos).kind = "Comma" THEN next(toks, r.pos) ELSE r.pos,
                           Append(args, r.val)))
    ELSE Ok(p, args)

postfix(toks, p, lhs, op) ==
    IF op = "LeftParen"
    THEN Bind(postfix_args(toks, p, <<>>), LAMBDA args :
         Bind(expect(toks, args.pos, "RightParen", "expected )"), LAMBDA rp :
         Ok(rp.pos, [kind |-> "Call", target |-> lhs, args |-> args.val])))
    ELSE Panic(p)

\* expression_loop with the right-hand side parsed at the operator's left
\* binding power.
expression_loop_rhs_at_lbp(toks, p, bp, lhs) ==
    LET kind == Cur(toks, p).kind
        post == postfix_binding_power(kind)
        inf == infix_binding_power(kind)
    IN  IF kind \in {"SemiColon", "Eof"} THEN Ok(p, lhs)
        ELSE IF post # <<>>
        THEN IF post[1] < bp THEN Ok(p, lhs)
             ELSE Bind(postfix(toks, next(toks, p), lhs, kind), LAMBDA r :
                       expression_loop(toks, r.pos, bp, r.val))
        ELSE IF inf # <<>>
        THEN IF inf[1] < bp THEN Ok(p, lhs)
             ELSE Bind(expression(toks, next(toks, p), inf[1]), LAMBDA rhs :
                       expression_loop(toks, rhs.pos, bp, infix(lhs, kind, rhs.val)))
        ELSE Ok(p, lhs)

\* The loop of expression(bp), entered with the left-hand side parsed so far.
expression_loop(toks, p, bp, lhs) ==
    LET kind == Cur(toks, p).kind
        post == postfix_binding_power(kind)
        inf == infix_binding_power(kind)
    IN  IF kind \in {"SemiColon", "Eof"} THEN Ok(p, lhs)
        ELSE IF post # <<>>
        THEN IF post[1] < bp THEN Ok(p, lhs)
             ELSE Bind(postfix(toks, next(toks, p), lhs, kind), LAMBDA r :
                       expression_loop(toks, r.pos, bp, r.val))
        ELSE IF inf # <<>>
        THEN IF inf[1] < bp THEN Ok(p, lhs)
             ELSE Bind(expression(toks, next(toks, p), inf[2]), LAMBDA rhs :
                       expression_loop(toks, rhs.pos, bp, infix(lhs, kind, rhs.val)))
        ELSE Ok(p, lhs)

expression(toks, p, bp) ==
    LET t == Cur(toks, p) IN
    IF is_eof(toks, p) THEN Err(p, UnexpectedEndOfFile)
    ELSE IF t.kind = "Variable"
    THEN expression_loop(toks, next(toks, p), bp, [kind |-> "Variable", name |-> t.val])
    ELSE IF t.kind = "Int"
    THEN expression_loop(toks, next(toks, p), bp, [kind |-> "Int", value |-> t.val])
    ELSE IF t.kind = "Identifier"
    THEN expression_loop(toks, next(toks, p), bp, [kind |-> "Identifier", name |-> t.val])
    ELSE Panic(p)

(***************************************************************************)
(* Statements.                                                             *)
(***************************************************************************)
\* while !is_eof() && current != RightBrace { block.push(statement()?) }
block_loop(toks, p, block) ==
    IF ~is_eof(toks, p) /\ Cur(toks, p).kind # "RightBrace"
    THEN Bind(statement(toks, p), LAMBDA r :
              block_loop(toks, r.pos, Append(block, r.val)))
    ELSE Ok(p, block)

\* The conversion of a class-body statement: <<member>>, or <<>> when the
\* statement is neither a function nor a method.
class_member_any(s) ==
    IF s.kind = "Function"
    THEN <<[kind |-> "Method", name |-> s.name, params |-> s.params,
            body |-> s.body, flags |-> <<>>]>>
    ELSE <<s>>

class_member(s) ==
    IF s.kind = "Function"
    THEN <<[kind |-> "Method", name |-> s.name, params |-> s.params,
            body |-> s.body, flags |-> <<>>]>>
    ELSE IF s.kind = "Method" THEN <<s>>
    ELSE <<>>

class_loop(toks, p, body) ==
    IF ~is_eof(toks, p) /\ Cur(toks, p).kind # "RightBrace"
    THEN Bind(statement(toks, p), LAMBDA r :
              IF class_member(r.val) = <<>> THEN Err(r.pos, InvalidClassStatement)
              ELSE class_loop(toks, r.pos, body \o class_member(r.val)))
    ELSE Ok(p, body)

echo_loop(toks, p, values) ==
    IF ~is_eof(toks, p) /\ Cur(toks, p).kind # "SemiColon"
    THEN Bind(expression(toks, p, 0), LAMBDA r :
              echo_loop(toks,
                        IF ~is_eof(toks, r.pos) /\ Cur(toks, r.pos).kind = "Comma"
                        THEN next(toks, r.pos) ELSE r.pos,
                        Append(values, r.val)))
    ELSE Ok(p, values)

RECURSIVE params_loop(_, _, _)
params_loop(toks, p, params) ==
    IF ~is_eof(toks, p) /\ Cur(toks, p).kind # "RightParen"
    THEN Bind(expect(toks, p, "Variable", "expected variable"), LAMBDA v :
              params_loop(toks,
                          IF Cur(toks, v.pos).kind = "Comma" THEN next(toks, v.pos) ELSE v.pos,
                          Append(params, v.val)))
    ELSE Ok(p, params)

\* The run of modifier tokens that starts at p: [pos, flags].
RECURSIVE flags_loop(_, _, _)
flags_loop(toks, p, flags) ==
    IF ~is_eof(toks, p) /\ is_method_visibility_modifier(Cur(toks, p).kind)
    THEN flags_loop(toks, next(toks, p),
                    Append(flags, visibility_token_to_flag(Cur(toks, p).kind)))
    ELSE [pos |-> p, flags |-> flags]

statement_if(toks, p) ==
    Bind(expect(toks, next(toks, p), "LeftParen", "expected ("), LAMBDA lp :
    Bind(expression(toks, lp.pos, 0), LAMBDA condition :
    Bind(expect(toks, condition.pos, "RightParen", "expected )"), LAMBDA rp :
    Bind(expect(toks, rp.pos, "LeftBrace", "expected {"), LAMBDA lb :
    Bind(block_loop(toks, lb.pos, <<>>), LAMBDA then :
    Bind(expect(toks, then.pos, "RightBrace", "expected }"), LAMBDA rb :
    Ok(rb.pos, [kind |-> "If", condition |-> condition.val, then |-> then.val])))))))

statement_class(toks, p) ==
    Bind(expect(toks, next(toks, p), "Identifier", "expected class name"), LAMBDA name :
    Bind(expect(toks, name.pos, "LeftBrace", "expected left-brace"), LAMBDA lb :
    Bind(class_loop(toks, lb.pos, <<>>), LAMBDA body :
    Bind(expect(toks, body.pos, "RightBrace", "expected right-brace"), LAMBDA rb :
    Ok(rb.pos, [kind |-> "Class", name |-> name.val, body |-> body.val])))))

statement_echo(toks, p) ==
    Bind(echo_loop(toks, next(toks, p), <<>>), LAMBDA values :
    Bind(expect(toks, values.pos, "SemiColon",
                "expected semi-colon at the end of an echo statement"), LAMBDA semi :
    Ok(semi.pos, [kind |-> "Echo", values |-> values.val])))

\* Result<Expression>.ok(): <<>> is None, <<e>> is Some(e).
ok(r) == IF r.st = "ok" THEN <<r.val>> ELSE <<>>

\* The else branch of the Return arm, given the result e of expression(0):
\* the value is e.ok(), so an Err becomes None and the statement goes on to
\* expect the semi-colon.  A panic unwinds.
statement_return_value(toks, e) ==
    IF e.st = "panic" THEN e
    ELSE Carry(e.raised,
               Bind(expect(toks, e.pos, "SemiColon",
                           "expected semi-colon at the end of return statement."),
                    LAMBDA semi : Ok(semi.pos, [kind |-> "Return", value |-> ok(e)])))

statement_return(toks, p) ==
    IF Cur(toks, next(toks, p)).kind = "SemiColon"
    THEN Bind(expect(toks, next(toks, p), "SemiColon",
                     "expected semi-colon at the end of return statement."),
              LAMBDA semi : Ok(semi.pos, [kind |-> "Return", value |-> <<>>]))
    ELSE statement_return_value(toks, expression(toks, next(toks, p), 0))

statement_function(toks, p) ==
    Bind(expect(toks, next(toks, p), "Identifier", "expected identifier"), LAMBDA name :
    Bind(expect(toks, name.pos, "LeftParen", "expected ("), LAMBDA lp :
    Bind(params_loop(toks, lp.pos, <<>>), LAMBDA params :
    Bind(expect(toks, params.pos, "RightParen", "expected )"), LAMBDA rp :
    Bind(expect(toks, rp.pos, "LeftBrace", "expected {"), LAMBDA lb :
    Bind(block_loop(toks, lb.pos, <<>>), LAMBDA body :
    Bind(expect(toks, body.pos, "RightBrace", "expected }"), LAMBDA rb :
    Ok(rb.pos, [kind |-> "Function", name |-> name.val, params |-> params.val,
                body |-> body.val]))))))))

\* The modifier arm after its flags: the member must be a function.
method_of(s, flags) ==
    IF s.val.kind = "Function"
    THEN Ok(s.pos, [kind |-> "Method", name |-> s.val.name, params |-> s.val.params,
                    body |-> s.val.body, flags |-> flags])
    ELSE Err(s.pos, InvalidClassStatement)

statement_modifiers_after(toks, f) ==
    Bind(statement(toks, f.pos), LAMBDA s : method_of(s, f.flags))

statement_modifiers(toks, p) ==
    statement_modifiers_after(toks,
        flags_loop(toks, next(toks, p), <<visibility_token_to_flag(Cur(toks, p).kind)>>))

statement_expression(toks, p) ==
    Bind(expression(toks, p, 0), LAMBDA expr :
    Ok(expr.pos, [kind |-> "Expression", expr |-> expr.val]))

statement(toks, p) ==
    LET k == Cur(toks, p).kind IN
    CASE k = "InlineHtml" ->
            Ok(next(toks, p), [kind |-> "InlineHtml", html |-> Cur(toks, p).val])
      [] k = "If" -> statement_if(toks, p)
      [] k = "Class" -> statement_class(toks, p)
      [] k = "Echo" -> statement_echo(toks, p)
      [] k = "Return" -> statement_return(toks, p)
      [] k = "Function" -> statement_function(toks, p)
      [] is_method_visibility_modifier(k) -> statement_modifiers(toks, p)
      [] OTHER -> statement_expression(toks, p)

(***************************************************************************)
(* Parser::parse, one loop iteration per step.                             *)
(***************************************************************************)
\* The loop condition of parse, negated.
parse_loop_ends_early(toks, p) == Cur(toks, p).kind \in {"Eof", "SemiColon"}

parse_loop_ends(toks, p) == Cur(toks, p).kind = "Eof"

ParseOpenTag ==
    /\ outcome = "running"
    /\ ~parse_loop_ends(tokens, pos)
    /\ Cur(tokens, pos).kind = "OpenTag"
    /\ pos' = next(tokens, pos)
    /\ consumed' = consumed \cup {pos}
    /\ UNCHANGED <<scoped_releases_on_error, default_token_is_eof, tokens, ast, outcome, err, raised, state, production>>

ParseStatementOk ==
    /\ outcome = "running"
    /\ ~parse_loop_ends(tokens, pos)
    /\ Cur(tokens, pos).kind # "OpenTag"
    /\ LET r == statement(tokens, pos) IN
        /\ r.st = "ok"
        /\ ast' = Append(ast, r.val)
        /\ pos' = r.pos
        /\ consumed' = consumed \cup (pos..(r.pos - 1))
        /\ raised' = IF raised = NoError THEN r.raised ELSE raised
    /\ UNCHANGED <<scoped_releases_on_error, default_token_is_eof, tokens, outcome, err, state, production>>

ParseStatementErr ==
    /\ outcome = "running"
    /\ ~parse_loop_ends(tokens, pos)
    /\ Cur(tokens, pos).kind # "OpenTag"
    /\ LET r == statement(tokens, pos) IN
        /\ r.st = "err"
        /\ outcome' = "err"
        /\ err' = r.err
        /\ pos' = r.pos
        /\ raised' = IF raised = NoError THEN r.raised ELSE raised
    /\ UNCHANGED <<scoped_releases_on_error, default_token_is_eof, tokens, ast, consumed, state, production>>

ParseStatementPanic ==
    /\ outcome = "running"
    /\ ~parse_loop_ends(tokens, pos)
    /\ Cur(tokens, pos).kind # "OpenTag"
    /\ LET r == statement(tokens, pos) IN
        /\ r.st = "panic"
        /\ outcome' = "panic"
        /\ pos' = r.pos
    /\ UNCHANGED <<scoped_releases_on_error, default_token_is_eof, tokens, ast, err, raised, consumed, state, production>>

ParseReturn ==
    /\ outcome = "running"
    /\ parse_loop_ends(tokens, pos)
    /\ outcome' = "ok"
    /\ UNCHANGED <<scoped_releases_on_error, default_token_is_eof, tokens, pos, ast, err, raised, consumed, state, production>>

(***************************************************************************)
(* Inputs.                                                                 *)
(***************************************************************************)
SeqsUpTo(S, n) == UNION {[1..k -> S] : k \in 0..n}

TrunkAlphabet ==
    {T("OpenTag"), T("If"), T("Class"), T("Echo"), T("Return"), T("Function"),
     T("Public"), T("Static"), Ident("f"), Var("n"), IntTok("1"),
     T("LeftParen"), T("RightParen"), T("LeftBrace"), T("RightBrace"),
     T("Comma"), T("SemiColon"), T("Plus"), T("LessThan")}

Atoms == {Var("n"), IntTok("1"), Ident("f")}
InfixTokens == {T("Plus"), T("Minus"), T("LessThan")}

\* Operand (operator operand)^k
RECURSIVE Chains(_)
Chains(k) ==
    IF k = 0 THEN {<<a>> : a \in Atoms}
    ELSE {c \o <<o, a>> : c \in Chains(k - 1), o \in InfixTokens, a \in Atoms}

ChainInputs == UNION {Chains(k) : k \in 1..MaxOps}

\* x o1 g ( a o2 b )   and   g ( a o1 b ) o2 c
CallInputs ==
    {<<Var("x"), o1, Ident("g"), T("LeftParen"), Var("a"), o2, IntTok("2"), T("RightParen")>>
        : o1 \in InfixTokens, o2 \in InfixTokens}
    \cup
    {<<Ident("g"), T("LeftParen"), Var("a"), o1, IntTok("2"), T("RightParen"), o2, Var("c")>>
        : o1 \in InfixTokens, o2 \in InfixTokens}

\* tests::fib
FibTokens ==
    <<T("OpenTag"), T("Function"), Ident("fib"), T("LeftParen"), Var("n"), T("RightParen"),
      T("LeftBrace"),
        T("If"), T("LeftParen"), Var("n"), T("LessThan"), IntTok("2"), T("RightParen"),
        T("LeftBrace"), T("Return"), Var("n"), T("SemiColon"), T("RightBrace"),
        T("Return"),
          Ident("fib"), T("LeftParen"), Var("n"), T("Minus"), IntTok("1"), T("RightParen"),
          T("Plus"),
          Ident("fib"), T("LeftParen"), Var("n"), T("Minus"), IntTok("2"), T("RightParen"),
          T("SemiColon"),
      T("RightBrace")>>

\* Class bodies: a member is a run of modifiers before a method, or a
\* statement that is no method.
ModifierTokens == {T("Private"), T("Static")}
MethodTail(n) ==
    <<T("Function"), Ident(n), T("LeftParen"), T("RightParen"), T("LeftBrace"), T("RightBrace")>>
MethodTailEcho(n) ==
    <<T("Function"), Ident(n), T("LeftParen"), T("RightParen"), T("LeftBrace"),
      T("Echo"), IntTok("1"), T("SemiColon"), T("RightBrace")>>
Members ==
    {m \o MethodTail("bar") : m \in SeqsUpTo(ModifierTokens, MaxMods)}
    \cup {<<T("Public")>> \o MethodTailEcho("baz"), <<T("Protected")>> \o MethodTail("baz"),
          MethodTailEcho("baz")}
    \cup {<<T("Echo"), IntTok("1"), T("SemiColon")>>,
          <<Var("n")>>,
          <<T("Public"), Var("n")>>,
          <<T("Class"), Ident("Bar"), T("LeftBrace"), T("RightBrace")>>}

RECURSIVE Bodies(_)
Bodies(k) ==
    IF k = 0 THEN {<<>>}
    ELSE {b \o m : b \in Bodies(k - 1), m \in Members}

ClassInputs ==
    {<<T("Class"), Ident("Foo"), T("LeftBrace")>> \o b \o <<T("RightBrace")>>
        : b \in UNION {Bodies(k) : k \in 0..MaxMembers}}

\* echo statements: tests::echo, two values, a trailing comma, no value
EchoInputs ==
    {<<T("OpenTag"), T("Echo"), IntTok("1"), T("SemiColon")>>,
     <<T("Echo"), IntTok("1"), T("Comma"), Var("n"), T("SemiColon")>>,
     <<T("Echo"), IntTok("1"), T("Comma"), T("SemiColon")>>,
     <<T("Echo"), T("SemiColon")>>}

TrunkInputs ==
    SeqsUpTo(TrunkAlphabet, MaxLen) \cup ChainInputs \cup CallInputs
    \cup ClassInputs \cup {FibTokens} \cup EchoInputs

Init ==
    /\ tokens \in TrunkInputs
    /\ pos = 1
    /\ ast = <<>>
    /\ outcome = "running"
    /\ err = NoError
    /\ raised = NoError
    /\ consumed = {}
    /\ state = [attributes |-> <<>>, scopes |-> <<>>]
    /\ production = ""
    /\ scoped_releases_on_error \in BOOLEAN
    /\ default_token_is_eof \in BOOLEAN

Next ==
    \/ ParseOpenTag
    \/ ParseStatementOk
    \/ ParseStatementErr
    \/ ParseStatementPanic
    \/ ParseReturn

Spec == Init /\ [][Next]_vars

(***************************************************************************)
(* Expected trees, written from the input tokens alone.                    *)
(***************************************************************************)
IsAtom(t) == t.kind \in {"Variable", "Int", "Identifier"}
IsInfix(t) == t.kind \in {"Plus", "Minus", "LessThan"}

AtomNode(t) ==
    CASE t.kind = "Variable" -> [kind |-> "Variable", name |-> t.val]
      [] t.kind = "Int" -> [kind |-> "Int", value |-> t.val]
      [] t.kind = "Identifier" -> [kind |-> "Identifier", name |-> t.val]

OpName(t) ==
    CASE t.kind = "Plus" -> "Add"
      [] t.kind = "Minus" -> "Sub"
      [] t.kind = "LessThan" -> "LessThan"

InfixNode(l, o, r) == [kind |-> "Infix", lhs |-> l, op |-> OpName(o), rhs |-> r]
CallNode(f, args) == [kind |-> "Call", target |-> f, args |-> args]
ExprStmt(e) == [kind |-> "Expression", expr |-> e]

\* a o b o c ...: operands at the odd places, infix operators at the even ones
IsChain(toks) ==
    /\ Len(toks) >= 3
    /\ Len(toks) % 2 = 1
    /\ \A i \in 1..Len(toks) : IF i % 2 = 1 THEN IsAtom(toks[i]) ELSE IsInfix(toks[i])

\* `+` and `-` have higher precedence than `<`
Tighter(o, than) == o.kind \in {"Plus", "Minus"} /\ than.kind = "LessThan"

\* x o1 g ( a o2 b )
IsCallOnRight(toks) ==
    /\ Len(toks) = 8
    /\ IsAtom(toks[1]) /\ IsInfix(toks[2]) /\ IsAtom(toks[3])
    /\ toks[4].kind = "LeftParen"
    /\ IsAtom(toks[5]) /\ IsInfix(toks[6]) /\ IsAtom(toks[7])
    /\ toks[8].kind = "RightParen"

\* g ( a o1 b ) o2 c
IsCallOnLeft(toks) ==
    /\ Len(toks) = 8
    /\ IsAtom(toks[1])
    /\ toks[2].kind = "LeftParen"
    /\ IsAtom(toks[3]) /\ IsInfix(toks[4]) /\ IsAtom(toks[5])
    /\ toks[6].kind = "RightParen"
    /\ IsInfix(toks[7]) /\ IsAtom(toks[8])

\* The tree tests::fib expects of FibTokens.
FibAst ==
    <<[kind |-> "Function", name |-> "fib", params |-> <<"n">>, body |->
        <<[kind |-> "If",
           condition |-> [kind |-> "Infix", lhs |-> [kind |-> "Variable", name |-> "n"],
                          op |-> "LessThan", rhs |-> [kind |-> "Int", value |-> "2"]],
           then |-> <<[kind |-> "Return", value |-> <<[kind |-> "Variable", name |-> "n"]>>]>>],
          [kind |-> "Return", value |->
            <<[kind |-> "Infix",
               lhs |-> [kind |-> "Call",
                        target |-> [kind |-> "Identifier", name |-> "fib"],
                        args |-> <<[kind |-> "Infix",
                                    lhs |-> [kind |-> "Variable", name |-> "n"],
                                    op |-> "Sub",
                                    rhs |-> [kind |-> "Int", value |-> "1"]]>>],
               op |-> "Add",
               rhs |-> [kind |-> "Call",
                        target |-> [kind |-> "Identifier", name |-> "fib"],
                        args |-> <<[kind |-> "Infix",
                                    lhs |-> [kind |-> "Variable", name |-> "n"],
                                    op |-> "Sub",
                                    rhs |-> [kind |-> "Int", value |-> "2"]]>>]]>>]>>]>>

\* The left-nested tree of the chain toks[1..n].
RECURSIVE LeftFold(_, _)
LeftFold(toks, n) ==
    IF n = 1 THEN AtomNode(toks[1])
    ELSE InfixNode(LeftFold(toks, n - 2), toks[n - 1], AtomNode(toks[n]))

(***************************************************************************)
(* Claims about Parser::parse.                                             *)
(***************************************************************************)

\* C1: if any production invoked during parse fails, parse returns exactly
\* that first error: no production swallows or replaces an error raised by a
\* sub-production.
C1_FirstErrorReturned ==
    (outcome # "running" /\ raised # NoError) => (outcome = "err" /\ err = raised)

\* C2: whenever parse returns Ok, the cursor is at the Eof token and every
\* token before it was skipped as a tag or consumed by a top-level statement.
C2_OkMeansAllConsumed ==
    outcome = "ok" =>
        /\ is_eof(tokens, pos)
        /\ pos = Len(tokens) + 1
        /\ consumed = 1..Len(tokens)

C2_Witness ==
    /\ outcome = "ok"
    /\ Len(tokens) = 3
    /\ tokens[1].kind = "OpenTag"
    /\ Len(ast) = 2

\* C3: parse returns Ok or Err on every token sequence and never panics.
C3_NeverPanics == outcome \in {"running", "ok", "err"}

\* C4: with + and - binding tighter than <, a < b + c parses as
\* Infix(a, <, Infix(b, +, c)) and a + b < c as Infix(Infix(a, +, b), <, c);
\* a call binds tighter than every infix operator and parses each argument
\* as a complete expression; the fib program parses to the tree of tests::fib.
C4_Precedence ==
    /\ (outcome # "running" /\ Len(tokens) = 5 /\ IsChain(tokens)
            /\ Tighter(tokens[4], tokens[2])) =>
          /\ outcome = "ok"
          /\ ast = <<ExprStmt(InfixNode(AtomNode(tokens[1]), tokens[2],
                        InfixNode(AtomNode(tokens[3]), tokens[4], AtomNode(tokens[5]))))>>
    /\ (outcome # "running" /\ Len(tokens) = 5 /\ IsChain(tokens)
            /\ Tighter(tokens[2], tokens[4])) =>
          /\ outcome = "ok"
          /\ ast = <<ExprStmt(InfixNode(
                        InfixNode(AtomNode(tokens[1]), tokens[2], AtomNode(tokens[3])),
                        tokens[4], AtomNode(tokens[5])))>>
    /\ (outcome # "running" /\ IsCallOnRight(tokens)) =>
          /\ outcome = "ok"
          /\ ast = <<ExprStmt(InfixNode(AtomNode(tokens[1]), tokens[2],
                        CallNode(AtomNode(tokens[3]),
                                 <<InfixNode(AtomNode(tokens[5]), tokens[6],
                                             AtomNode(tokens[7]))>>)))>>
    /\ (outcome # "running" /\ IsCallOnLeft(tokens)) =>
          /\ outcome = "ok"
          /\ ast = <<ExprStmt(InfixNode(
                        CallNode(AtomNode(tokens[1]),
                                 <<InfixNode(AtomNode(tokens[3]), tokens[4],
                                             AtomNode(tokens[5]))>>),
                        tokens[7], AtomNode(tokens[8])))>>
    /\ (outcome # "running" /\ tokens = FibTokens) => (outcome = "ok" /\ ast = FibAst)

C4_Witness ==
    /\ outcome = "ok"
    /\ Len(tokens) = 5
    /\ IsChain(tokens)
    /\ tokens[2].kind = "LessThan"
    /\ tokens[4].kind = "Minus"
    /\ ast[1].expr.rhs.kind = "Infix"

\* The left-associative infix operators.
LeftAssociative == {"Plus", "Minus"}

\* C5: the left-associative operators + and - have binding powers (l, r)
\* with l < r, and a chain of them, equal or mixed, parses left-nested:
\* a - b + c is Infix(Infix(a, -, b), +, c).
C5_LeftAssociative ==
    /\ \A k \in LeftAssociative : infix_binding_power(k)[1] < infix_binding_power(k)[2]
    /\ (/\ outcome # "running"
        /\ IsChain(tokens)
        /\ \A i \in 1..Len(tokens) : i % 2 = 0 => tokens[i].kind \in LeftAssociative) =>
          /\ outcome = "ok"
          /\ ast = <<ExprStmt(LeftFold(tokens, Len(tokens)))>>

C5_Witness ==
    /\ outcome = "ok"
    /\ Len(tokens) = 5
    /\ IsChain(tokens)
    /\ tokens[2].kind = "Minus"
    /\ tokens[4].kind = "Plus"
    /\ ast[1].expr.lhs.kind = "Infix"
    /\ ast[1].expr.lhs.op = "Sub"

(***************************************************************************)
(* Class bodies, read off the input tokens.                                *)
(***************************************************************************)
IsModifier(t) == t.kind \in {"Public", "Protected", "Private", "Static"}

\* Number of braces open before token i.
BraceDepth(toks, i) ==
    Cardinality({j \in 1..(i - 1) : toks[j].kind = "LeftBrace"})
    - Cardinality({j \in 1..(i - 1) : toks[j].kind = "RightBrace"})

\* The `function` keywords directly in the body of the class that opens the input.
MemberFunctions(toks) ==
    {i \in 1..Len(toks) : toks[i].kind = "Function" /\ BraceDepth(toks, i) = 1}

\* The modifier tokens that immediately precede token i, in source order.
RECURSIVE ModifierRun(_, _)
ModifierRun(toks, i) ==
    IF i > 1 /\ IsModifier(toks[i - 1])
    THEN Append(ModifierRun(toks, i - 1), toks[i - 1].kind)
    ELSE <<>>

\* The cursor after the run of modifier tokens at p.
RECURSIVE AfterModifiers(_, _)
AfterModifiers(toks, p) ==
    IF p <= Len(toks) /\ IsModifier(toks[p]) THEN AfterModifiers(toks, p + 1) ELSE p

\* Some member of the body that starts at p parses, after its modifiers, to a
\* statement that is no function, all members before it being methods.
RECURSIVE HasInvalidMember(_, _)
HasInvalidMember(toks, p) ==
    IF p > Len(toks) \/ toks[p].kind = "RightBrace" THEN FALSE
    ELSE IF AfterModifiers(toks, p) > Len(toks) THEN FALSE
    ELSE LET r == statement(toks, AfterModifiers(toks, p)) IN
         IF r.st # "ok" THEN FALSE
         ELSE IF r.val.kind # "Function" THEN TRUE
         ELSE HasInvalidMember(toks, r.pos)

HasClassHeader(toks) ==
    /\ Len(toks) >= 3
    /\ toks[1].kind = "Class"
    /\ toks[2].kind = "Identifier"
    /\ toks[3].kind = "LeftBrace"

\* C6: a class body yields one Method per `function` member, in source
\* order, whose flags are exactly the modifier tokens immediately before its
\* `function` keyword (none: the empty list); a class-body statement that is
\* neither a function nor a method fails the class with InvalidClassStatement.
C6_ClassMethods ==
    /\ (outcome = "ok" /\ HasClassHeader(tokens) /\ Len(ast) = 1) =>
          /\ ast[1].kind = "Class"
          /\ ast[1].name = tokens[2].val
          /\ Len(ast[1].body) = Cardinality(MemberFunctions(tokens))
          /\ \A i \in MemberFunctions(tokens) :
                LET m == ast[1].body[Cardinality({j \in MemberFunctions(tokens) : j <= i})]
                IN  /\ m.kind = "Method"
                    /\ m.name = tokens[i + 1].val
                    /\ m.flags = ModifierRun(tokens, i)
    /\ (outcome # "running" /\ HasClassHeader(tokens) /\ HasInvalidMember(tokens, 4)) =>
          /\ outcome = "err"
          /\ err = InvalidClassStatement

C6_Witness ==
    /\ outcome = "ok"
    /\ HasClassHeader(tokens)
    /\ Len(ast) = 1
    /\ Len(ast[1].body) = 2
    /\ ast[1].body[1].flags = <<>>
    /\ ast[1].body[2].flags = <<"Private", "Static">>

(***************************************************************************)
(* The trait-use production, traits::usage of                              *)
(* src/parser/internal/traits.rs.  The token stream, the skip_* utilities, *)
(* the identifier productions and the expect_token!/peek_token! macros it  *)
(* calls are not part of the available sources; they are modelled after    *)
(* their specification.  A span is the index of its token.                 *)
(***************************************************************************)
current(toks, p) == IF p \in 1..Len(toks) THEN toks[p] ELSE EofToken
peek(toks, p) == current(toks, p + 1)
stream_next(toks, p) == IF p > Len(toks) THEN p ELSE p + 1

expected_token_err(expected) == [kind |-> "ExpectedToken", msg |-> expected]

\* utils::skip(kind): require the current token to be of that kind and consume it.
skip(toks, p, k) ==
    IF current(toks, p).kind = k THEN Ok(stream_next(toks, p), p)
    ELSE Err(p, expected_token_err(k))

skip_semicolon(toks, p) == skip(toks, p, "SemiColon")
skip_left_brace(toks, p) == skip(toks, p, "LeftBrace")
skip_right_brace(toks, p) == skip(toks, p, "RightBrace")

SimpleIdentifier(toks, p) == [span |-> p, name |-> current(toks, p).val]

\* identifiers::full_type_name: a simple, qualified or fully qualified name.
full_type_name(toks, p) ==
    IF current(toks, p).kind \in {"Identifier", "QualifiedIdentifier", "FullyQualifiedIdentifier"}
    THEN Ok(stream_next(toks, p), SimpleIdentifier(toks, p))
    ELSE Err(p, expected_token_err("an identifier"))

\* identifiers::identifier and identifiers::name: a single-segment identifier.
identifier(toks, p) ==
    IF current(toks, p).kind = "Identifier"
    THEN Ok(stream_next(toks, p), SimpleIdentifier(toks, p))
    ELSE Err(p, expected_token_err("an identifier"))

name(toks, p) ==
    IF current(toks, p).kind = "Identifier"
    THEN Ok(stream_next(toks, p), SimpleIdentifier(toks, p))
    ELSE Err(p, expected_token_err("an identifier"))

\* The loop over the trait names; traits is the list so far.
RECURSIVE usage_traits(_, _, _)
usage_traits(toks, p, traits) ==
    IF current(toks, p).kind # "SemiColon" /\ current(toks, p).kind # "LeftBrace"
    THEN Bind(full_type_name(toks, p), LAMBDA t :
              IF current(toks, t.pos).kind = "Comma"
              THEN IF peek(toks, t.pos).kind = "SemiColon"
                   THEN Bind(skip_semicolon(toks, t.pos), LAMBDA s :
                             usage_traits(toks, s.pos, Append(traits, t.val)))
                   ELSE IF peek(toks, t.pos).kind = "LeftBrace"
                   THEN Bind(skip_left_brace(toks, t.pos), LAMBDA s :
                             usage_traits(toks, s.pos, Append(traits, t.val)))
                   ELSE usage_traits(toks, stream_next(toks, t.pos), Append(traits, t.val))
              ELSE Ok(t.pos, Append(traits, t.val)))
    ELSE Ok(p, traits)

\* The method selector of an adaptation: val is [trait, method], trait an
\* Option (<<>> is None, <<t>> is Some(t)).
usage_selector(toks, p) ==
    IF peek(toks, p).kind = "DoubleColon"
    THEN Bind(full_type_name(toks, p), LAMBDA t :
         Bind(identifier(toks, stream_next(toks, t.pos)), LAMBDA m :
         Ok(m.pos, [trait |-> <<t.val>>, method |-> m.val])))
    ELSE Bind(identifier(toks, p), LAMBDA m :
         Ok(m.pos, [trait |-> <<>>, method |-> m.val]))

\* peek_token!([Public => .., Protected => .., Private => ..]): the
\* visibility modifier, start on the current token and end on the peeked one.
VisibilityModifier(toks, p) ==
    [kind |-> current(toks, p).kind, start |-> p, end |-> p + 1]

\* The As arm with the alias always taken as carrying no visibility.
usage_as_drops_visibility(toks, p, sel) ==
    IF current(toks, p).kind \in {"Public", "Protected", "Private"}
    THEN IF current(toks, stream_next(toks, p)).kind = "SemiColon"
         THEN Ok(stream_next(toks, p),
                 [kind |-> "Visibility", trait |-> sel.trait, method |-> sel.method,
                  visibility |-> VisibilityModifier(toks, p)])
         ELSE Bind(name(toks, stream_next(toks, p)), LAMBDA alias :
              Ok(alias.pos,
                 [kind |-> "Alias", trait |-> sel.trait, method |-> sel.method,
                  alias |-> alias.val, visibility |-> <<>>]))
    ELSE Bind(name(toks, p), LAMBDA alias :
         Ok(alias.pos,
            [kind |-> "Alias", trait |-> sel.trait, method |-> sel.method,
             alias |-> alias.val, visibility |-> <<>>]))

\* The As arm, entered with the cursor after `as`.
usage_as(toks, p, sel) ==
    IF current(toks, p).kind \in {"Public", "Protected", "Private"}
    THEN IF current(toks, stream_next(toks, p)).kind = "SemiColon"
         THEN Ok(stream_next(toks, p),
                 [kind |-> "Visibility", trait |-> sel.trait, method |-> sel.method,
                  visibility |-> VisibilityModifier(toks, p)])
         ELSE Bind(name(toks, stream_next(toks, p)), LAMBDA alias :
              Ok(alias.pos,
                 [kind |-> "Alias", trait |-> sel.trait, method |-> sel.method,
                  alias |-> alias.val, visibility |-> <<VisibilityModifier(toks, p)>>]))
    ELSE Bind(name(toks, p), LAMBDA alias :
         Ok(alias.pos,
            [kind |-> "Alias", trait |-> sel.trait, method |-> sel.method,
             alias |-> alias.val, visibility |-> <<>>]))

\* while current != SemiColon { .. } of the Insteadof arm.
RECURSIVE usage_insteadof_loop(_, _, _)
usage_insteadof_loop(toks, p, insteadof) ==
    IF current(toks, p).kind # "SemiColon"
    THEN Bind(full_type_name(toks, p), LAMBDA t :
              IF current(toks, t.pos).kind = "Comma"
              THEN IF peek(toks, t.pos).kind = "SemiColon"
                   THEN Bind(skip_semicolon(toks, t.pos), LAMBDA s :
                             usage_insteadof_loop(toks, s.pos, Append(insteadof, t.val)))
                   ELSE usage_insteadof_loop(toks, stream_next(toks, t.pos),
                                             Append(insteadof, t.val))
              ELSE Ok(t.pos, Append(insteadof, t.val)))
    ELSE Ok(p, insteadof)

\* The rest of the Insteadof arm after its first name, at a `,`.
usage_insteadof_rest(toks, p, first) ==
    IF peek(toks, p).kind = "SemiColon"
    THEN Bind(skip_semicolon(toks, p), LAMBDA s :
              usage_insteadof_loop(toks, stream_next(toks, s.pos), <<first>>))
    ELSE usage_insteadof_loop(toks, stream_next(toks, p), <<first>>)

\* The Insteadof arm, entered with the cursor after `insteadof`.
usage_insteadof(toks, p, sel) ==
    Bind(full_type_name(toks, p), LAMBDA first :
    Bind(IF current(toks, first.pos).kind = "Comma"
         THEN usage_insteadof_rest(toks, first.pos, first.val)
         ELSE Ok(first.pos, <<first.val>>), LAMBDA insteadof :
    Ok(insteadof.pos,
       [kind |-> "Precedence", trait |-> sel.trait, method |-> sel.method,
        insteadof |-> insteadof.val])))

\* expect_token!([As => .., Insteadof => ..]): the matched token is consumed
\* and its arm runs.
usage_clause(toks, p, sel) ==
    IF current(toks, p).kind = "As" THEN usage_as(toks, stream_next(toks, p), sel)
    ELSE IF current(toks, p).kind = "Insteadof"
    THEN usage_insteadof(toks, stream_next(toks, p), sel)
    ELSE Err(p, expected_token_err("as, insteadof"))

\* One iteration of the adaptation loop.
usage_adaptation(toks, p) ==
    Bind(usage_selector(toks, p), LAMBDA sel :
    Bind(usage_clause(toks, sel.pos, sel.val), LAMBDA a :
    Bind(skip_semicolon(toks, a.pos), LAMBDA semi :
    Ok(semi.pos, a.val))))

RECURSIVE usage_adaptations(_, _, _)
usage_adaptations(toks, p, adaptations) ==
    IF current(toks, p).kind # "RightBrace"
    THEN Bind(usage_adaptation(toks, p), LAMBDA a :
              usage_adaptations(toks, a.pos, Append(adaptations, a.val)))
    ELSE Ok(p, adaptations)

\* usage after the trait names.
usage_body(toks, p, traits) ==
    IF current(toks, p).kind = "LeftBrace"
    THEN Bind(skip_left_brace(toks, p), LAMBDA lb :
         Bind(usage_adaptations(toks, lb.pos, <<>>), LAMBDA adaptations :
         Bind(skip_right_brace(toks, adaptations.pos), LAMBDA rb :
         Ok(rb.pos, [traits |-> traits, adaptations |-> adaptations.val]))))
    ELSE Bind(skip_semicolon(toks, p), LAMBDA semi :
         Ok(semi.pos, [traits |-> traits, adaptations |-> <<>>]))

\* traits::usage, entered with the cursor on `use`.
usage(toks, p) ==
    Bind(usage_traits(toks, stream_next(toks, p), <<>>), LAMBDA traits :
    usage_body(toks, traits.pos, traits.val))

UsageOk ==
    /\ outcome = "running"
    /\ usage(tokens, pos).st = "ok"
    /\ outcome' = "ok"
    /\ ast' = <<usage(tokens, pos).val>>
    /\ pos' = usage(tokens, pos).pos
    /\ UNCHANGED <<scoped_releases_on_error, default_token_is_eof, tokens, err, raised, consumed, state, production>>

UsageErr ==
    /\ outcome = "running"
    /\ usage(tokens, pos).st = "err"
    /\ outcome' = "err"
    /\ err' = usage(tokens, pos).err
    /\ pos' = usage(tokens, pos).pos
    /\ UNCHANGED <<scoped_releases_on_error, default_token_is_eof, tokens, ast, raised, consumed, state, production>>

(***************************************************************************)
(* Inputs of traits::usage: `use`, then any tokens up to MaxLen; and       *)
(* `use` names { clauses } with every clause tail up to MaxLen tokens.     *)
(***************************************************************************)
UsageAlphabet ==
    {Ident("A"), T("Comma"), T("SemiColon"), T("LeftBrace"), T("RightBrace"),
     T("DoubleColon"), T("As"), T("Insteadof"), T("Public")}

NameLists ==
    {<<>>, <<Ident("A")>>, <<Ident("A"), T("Comma"), Ident("B")>>, <<Ident("A"), T("Comma")>>}

Selectors == {<<Ident("m")>>, <<Ident("A"), T("DoubleColon"), Ident("m")>>}

AsTails ==
    {<<T("As")>> \o t :
        t \in SeqsUpTo({T("Public"), T("Protected"), T("Private"), Ident("n"),
                        T("SemiColon")}, MaxLen)}

InsteadofTails ==
    {<<T("Insteadof")>> \o t :
        t \in SeqsUpTo({Ident("B"), T("Comma"), T("SemiColon")}, MaxLen)}

Clauses == {sel \o tail : sel \in Selectors, tail \in AsTails \cup InsteadofTails}

PairedClauses ==
    {<<Ident("A"), T("DoubleColon"), Ident("m"), T("Insteadof"), Ident("B"), T("SemiColon")>>,
     <<Ident("B"), T("DoubleColon"), Ident("m"), T("As"), T("Private"), Ident("n"),
       T("SemiColon")>>,
     <<Ident("m"), T("As"), T("Public"), T("SemiColon")>>,
     <<Ident("m"), T("As"), Ident("n"), T("SemiColon")>>,
     <<Ident("m"), T("Insteadof"), Ident("B"), T("Comma"), Ident("A"), T("SemiColon")>>}

UsageInputs ==
    {<<T("Use")>> \o rest : rest \in SeqsUpTo(UsageAlphabet, MaxLen)}
    \cup {<<T("Use")>> \o names \o <<T("LeftBrace")>> \o c \o <<T("RightBrace")>>
            : names \in NameLists, c \in Clauses}
    \cup {<<T("Use"), Ident("A"), T("Comma"), Ident("B"), T("LeftBrace")>>
            \o c1 \o c2 \o <<T("RightBrace")>>
            : c1 \in PairedClauses, c2 \in PairedClauses}

InitUsage ==
    /\ tokens \in UsageInputs
    /\ pos = 1
    /\ ast = <<>>
    /\ outcome = "running"
    /\ err = NoError
    /\ raised = NoError
    /\ consumed = {}
    /\ state = [attributes |-> <<>>, scopes |-> <<>>]
    /\ production = ""
    /\ scoped_releases_on_error \in BOOLEAN
    /\ default_token_is_eof \in BOOLEAN

NextUsage ==
    \/ UsageOk
    \/ UsageErr

SpecUsage == InitUsage /\ [][NextUsage]_vars

(***************************************************************************)
(* Claims about traits::usage.                                             *)
(***************************************************************************)
\* Index of the first `;` or `{` after `use` (Len + 1 when there is none):
\* the end of the trait-name list.
NameListEnd(toks) ==
    IF \E i \in 2..Len(toks) : toks[i].kind \in {"SemiColon", "LeftBrace"}
    THEN CHOOSE i \in 2..Len(toks) :
            /\ toks[i].kind \in {"SemiColon", "LeftBrace"}
            /\ \A j \in 2..(i - 1) : toks[j].kind \notin {"SemiColon", "LeftBrace"}
    ELSE Len(toks) + 1

\* Tokens 2..(e - 1) are name , name , ...
NamesThenCommas(toks, e) ==
    \A j \in 2..(e - 1) :
        IF j % 2 = 0 THEN toks[j].kind = "Identifier" ELSE toks[j].kind = "Comma"

\* C7: usage returns Ok only if at least one trait name was parsed: every
\* TraitUsage produced has a non-empty traits list.
C7_TraitsNonEmpty == outcome = "ok" => Len(ast[1].traits) >= 1

\* C8: a `,` of the trait-name list immediately followed by `;` or `{` fails
\* the production with the cursor still on that `,`; on every successful
\* return the number of trait names is the number of separating commas plus one.
C8_NoTrailingComma ==
    LET e == NameListEnd(tokens) IN
    /\ (/\ outcome # "running"
        /\ e <= Len(tokens)
        /\ e > 2
        /\ tokens[e - 1].kind = "Comma"
        /\ NamesThenCommas(tokens, e)) =>
          (outcome = "err" /\ pos = e - 1)
    /\ outcome = "ok" =>
          Len(ast[1].traits) =
              Cardinality({j \in 2..(e - 1) : tokens[j].kind = "Comma"}) + 1

\* C9: insteadof is accepted only after a qualified selector: every
\* Precedence adaptation produced carries a qualifying trait and a non-empty
\* list of superseded traits.
C9_PrecedenceQualified ==
    outcome = "ok" =>
        \A k \in 1..Len(ast[1].adaptations) :
            ast[1].adaptations[k].kind = "Precedence" =>
                /\ ast[1].adaptations[k].trait # <<>>
                /\ Len(ast[1].adaptations[k].insteadof) >= 1

\* The `as` and `insteadof` keywords consumed by the production.
ClauseKeywords == {i \in 2..(pos - 1) : tokens[i].kind \in {"As", "Insteadof"}}

IsVisibility(t) == t.kind \in {"Public", "Protected", "Private"}

\* C10: after `as`, visibility then `;` yields a Visibility adaptation,
\* visibility then a name an Alias with Some(visibility), a name alone an
\* Alias with visibility None; `as` followed at once by `;` is an error; an
\* accepted clause is followed by a `;`, which is consumed.
C10_AsClause ==
    outcome = "ok" =>
        /\ Len(ast[1].adaptations) = Cardinality(ClauseKeywords)
        /\ \A i \in ClauseKeywords :
            LET a == ast[1].adaptations[Cardinality({j \in ClauseKeywords : j <= i})]
                v == current(tokens, i + 1)
                w == current(tokens, i + 2)
            IN  tokens[i].kind = "As" =>
                    /\ v.kind # "SemiColon"
                    /\ (IsVisibility(v) /\ w.kind = "SemiColon") =>
                          /\ a.kind = "Visibility"
                          /\ a.visibility.kind = v.kind
                          /\ pos > i + 2
                    /\ (IsVisibility(v) /\ w.kind # "SemiColon") =>
                          /\ a.kind = "Alias"
                          /\ a.alias.name = w.val
                          /\ Len(a.visibility) = 1
                          /\ a.visibility[1].kind = v.kind
                          /\ current(tokens, i + 3).kind = "SemiColon"
                          /\ pos > i + 3
                    /\ ~IsVisibility(v) =>
                          /\ a.kind = "Alias"
                          /\ a.alias.name = v.val
                          /\ a.visibility = <<>>
                          /\ w.kind = "SemiColon"
                          /\ pos > i + 2

C10_Witness ==
    /\ outcome = "ok"
    /\ Len(ast[1].adaptations) = 2
    /\ ast[1].adaptations[1].kind = "Visibility"
    /\ ast[1].adaptations[2].kind = "Alias"
    /\ Len(ast[1].adaptations[2].visibility) = 1
    /\ ast[1].adaptations[2].visibility[1].kind = "Private"

(***************************************************************************)
(* The statement dispatcher and the trait declaration of src/parser:       *)
(* parse, top_level_statement and statement of src/parser/mod.rs, parse    *)
(* and member of src/parser/internal/traits.rs (specification SpecStmt).   *)
(*                                                                         *)
(* A production takes the tokens and the parser state                      *)
(*   s = [pos, attributes, scopes, ...]                                    *)
(* and returns a result, which is the state after it together with         *)
(*   [st, val, err, raised, production]                                    *)
(* so that a result is itself the state the next production starts from.  *)
(* The State, the token stream, the utilities, the macros and the          *)
(* productions of the other modules are not part of the available sources; *)
(* they are modelled after their specification.                            *)
(***************************************************************************)
NewState(p) == [pos |-> p, attributes |-> <<>>, scopes |-> <<>>]

SOk(s, v) ==
    [st |-> "ok", pos |-> s.pos, val |-> v, err |-> NoError, raised |-> NoError,
     attributes |-> s.attributes, scopes |-> s.scopes, production |-> ""]

SErr(s, e) ==
    [st |-> "err", pos |-> s.pos, val |-> <<>>, err |-> e, raised |-> e,
     attributes |-> s.attributes, scopes |-> s.scopes, production |-> ""]

\* The result r of a production that touches the stream only, run in state s.
Lift(s, r) ==
    [st |-> r.st, pos |-> r.pos, val |-> r.val, err |-> r.err, raised |-> r.raised,
     attributes |-> s.attributes, scopes |-> s.scopes, production |-> ""]

\* state.stream.next() in state s.
advance(toks, s) == SOk([s EXCEPT !.pos = stream_next(toks, s.pos)], <<>>)

\* The result r, tagged with the arm of the dispatcher that produced it.
Produced(arm, r) == [r EXCEPT !.production = arm]

unexpected_token_err(expected) == [kind |-> "UnexpectedToken", msg |-> expected]
UnexpectedEndOfInput == [kind |-> "UnexpectedEndOfInput", msg |-> ""]
UnconsumedAttributes == [kind |-> "UnconsumedAttributes", msg |-> ""]
DuplicateModifier == [kind |-> "DuplicateModifier", msg |-> ""]
ModifierConflict == [kind |-> "ModifierConflict", msg |-> ""]

\* OpenTag(OpenTagKind::Full), OpenTag(OpenTagKind::Echo)
OpenTag(k) == [kind |-> "OpenTag", val |-> k]

\* TokenStream::lookahead(k): the token at cursor + k.
lookahead(toks, p, k) == current(toks, p + k)

\* State::get_attributes: drains the attribute buffer and returns it.
get_attributes(s) == SOk([s EXCEPT !.attributes = <<>>], s.attributes)

\* State::attribute: appends a group to the attribute buffer.
attribute(s, group) == [s EXCEPT !.attributes = Append(@, group)]

\* State::enter and State::exit
Scope(kind, scope_name) == [kind |-> kind, name |-> scope_name]
enter(s, scope) == [s EXCEPT !.scopes = Append(@, scope)]
exit(r) == [r EXCEPT !.scopes = SubSeq(@, 1, Len(@) - 1)]

\* scoped!(state, scope, block) around the result r of its block: State::enter
\* before the block and State::exit after it. A block that runs to its end is
\* followed by the exit. A block left by a ? (traits.rs:173, 177, 180) is
\* followed by the exit in an expansion that catches the error of its block,
\* and by no exit in an expansion that is enter, the block, exit in sequence,
\* where the ? returns from the function that invokes the macro.
scoped(r) ==
    IF r.st = "ok" \/ scoped_releases_on_error THEN exit(r) ELSE r

skip_left_parenthesis(toks, p) == skip(toks, p, "LeftParen")
skip_right_parenthesis(toks, p) == skip(toks, p, "RightParen")
skip_colon(toks, p) == skip(toks, p, "Colon")

\* utils::skip_open_tag: an open tag at the cursor is consumed, except the
\* short echo tag, which statement matches after the call (mod.rs:149).
skip_open_tag(toks, s) ==
    IF current(toks, s.pos).kind = "OpenTag" /\ current(toks, s.pos).val # "Echo"
    THEN advance(toks, s)
    ELSE SOk(s, <<>>)

\* utils::semicolon_terminated(inner), given the result of inner.
semicolon_terminated(toks, inner) ==
    Bind(inner, LAMBDA e :
    Bind(Lift(e, skip_semicolon(toks, e.pos)), LAMBDA semi :
    SOk(semi, e.val)))

\* identifiers::is_identifier_maybe_soft_reserved, is_soft_reserved_identifier
is_soft_reserved_identifier(k) == k \in {"Enum", "Readonly", "From"}

is_identifier_maybe_soft_reserved(k) ==
    k = "Identifier" \/ is_soft_reserved_identifier(k)

is_reserved_identifier(k) ==
    k \in {"Abstract", "Final", "Class", "Interface", "Trait", "Function", "Static",
           "Public", "Protected", "Private", "Var", "Const", "Use", "As", "Insteadof",
           "Goto", "Declare", "EndDeclare", "Global", "Echo", "Return", "If", "ElseIf",
           "Else", "EndIf", "While", "EndWhile", "Do", "For", "EndFor", "Foreach",
           "EndForeach", "Continue", "Break", "Switch", "EndSwitch", "Case", "Default",
           "Try", "Catch", "Finally", "Namespace"}

\* identifiers::is_identifier_maybe_reserved
is_identifier_maybe_reserved(k) ==
    is_identifier_maybe_soft_reserved(k) \/ is_reserved_identifier(k)

\* The name of an identifier-shaped token.
TokenName(t) == IF t.kind = "Identifier" THEN t.val ELSE t.kind

\* identifiers::type_identifier, identifier_maybe_soft_reserved: the name of
\* a declaration.
type_identifier(toks, p) ==
    IF current(toks, p).kind = "Identifier"
    THEN Ok(stream_next(toks, p), SimpleIdentifier(toks, p))
    ELSE Err(p, expected_token_err("an identifier"))

identifier_maybe_soft_reserved(toks, p) ==
    IF is_identifier_maybe_soft_reserved(current(toks, p).kind)
    THEN Ok(stream_next(toks, p), [span |-> p, name |-> TokenName(current(toks, p))])
    ELSE Err(p, expected_token_err("an identifier"))

identifier_maybe_reserved(toks, p) ==
    IF is_identifier_maybe_reserved(current(toks, p).kind)
    THEN Ok(stream_next(toks, p), [span |-> p, name |-> TokenName(current(toks, p))])
    ELSE Err(p, expected_token_err("an identifier"))

\* attributes::gather_attributes: consumes the #[ name, ... ] groups at the
\* cursor into the attribute buffer; val tells whether there was any.
RECURSIVE attribute_members(_, _, _)
attribute_members(toks, p, members) ==
    Bind(full_type_name(toks, p), LAMBDA n :
         IF current(toks, n.pos).kind = "Comma"
         THEN IF peek(toks, n.pos).kind = "RightBracket"
              THEN Ok(stream_next(toks, n.pos), Append(members, n.val))
              ELSE attribute_members(toks, stream_next(toks, n.pos), Append(members, n.val))
         ELSE Ok(n.pos, Append(members, n.val)))

attribute_group(toks, p) ==
    Bind(skip(toks, p, "Attribute"), LAMBDA start :
    Bind(attribute_members(toks, start.pos, <<>>), LAMBDA members :
    Bind(skip(toks, members.pos, "RightBracket"), LAMBDA end :
    Ok(end.pos, [start |-> start.val, members |-> members.val, end |-> end.val]))))

RECURSIVE gather_attributes_from(_, _, _)
gather_attributes_from(toks, s, any) ==
    IF current(toks, s.pos).kind = "Attribute"
    THEN Bind(Lift(s, attribute_group(toks, s.pos)), LAMBDA g :
              gather_attributes_from(toks, attribute(g, g.val), TRUE))
    ELSE SOk(s, any)

gather_attributes(toks, s) == gather_attributes_from(toks, s, FALSE)

(***************************************************************************)
(* Expressions, functions and blocks of src/parser (modelled after 4.7,    *)
(* 4.8 and 4.9 of the specification).                                      *)
(***************************************************************************)
RECURSIVE mod_statement(_, _)
RECURSIVE multiple_statements(_, _, _, _)
RECURSIVE expressions_for(_, _, _)
RECURSIVE expressions_loop(_, _, _)
RECURSIVE arguments_loop(_, _, _)
RECURSIVE parameters_loop(_, _, _)

\* blocks::multiple_statements(until)
multiple_statements(toks, s, until, statements) ==
    IF current(toks, s.pos).kind # "Eof" /\ current(toks, s.pos).kind # until
    THEN Bind(mod_statement(toks, s), LAMBDA r :
              multiple_statements(toks, r, until, Append(statements, r.val)))
    ELSE SOk(s, statements)

\* { statements }
braced_statements(toks, s) ==
    Bind(Lift(s, skip_left_brace(toks, s.pos)), LAMBDA lb :
    Bind(multiple_statements(toks, lb, "RightBrace", <<>>), LAMBDA statements :
    Bind(Lift(statements, skip_right_brace(toks, statements.pos)), LAMBDA rb :
    SOk(rb, statements.val))))

\* blocks::block_statement
block_statement(toks, s) ==
    Bind(braced_statements(toks, s), LAMBDA b : SOk(b, [kind |-> "Block", statements |-> b.val]))

\* The parameter list between the parentheses: $a, $b
parameters_loop(toks, s, params) ==
    IF current(toks, s.pos).kind = "RightParen" THEN SOk(s, params)
    ELSE IF current(toks, s.pos).kind # "Variable"
    THEN SErr(s, expected_token_err("a variable"))
    ELSE IF current(toks, stream_next(toks, s.pos)).kind = "Comma"
    THEN parameters_loop(toks, advance(toks, advance(toks, s)),
                         Append(params, current(toks, s.pos).val))
    ELSE SOk(advance(toks, s), Append(params, current(toks, s.pos).val))

\* ( parameters )
parameters(toks, s) ==
    Bind(Lift(s, skip_left_parenthesis(toks, s.pos)), LAMBDA lp :
    Bind(parameters_loop(toks, lp, <<>>), LAMBDA params :
    Bind(Lift(params, skip_right_parenthesis(toks, params.pos)), LAMBDA rp :
    SOk(rp, params.val))))

\* ( parameters ) { statements } in the scope of the function.
parameters_and_body(toks, s) ==
    Bind(parameters(toks, s), LAMBDA params :
    Bind(braced_statements(toks, params), LAMBDA b :
    SOk(b, [params |-> params.val, body |-> b.val])))

\* The cursor after an optional `&`.
after_ampersand(toks, s) ==
    IF current(toks, s.pos).kind = "Ampersand" THEN advance(toks, s) ELSE SOk(s, <<>>)

\* functions::function: function [&] name ( parameters ) { statements }
function(toks, s) ==
    Bind(Lift(s, skip(toks, s.pos, "Function")), LAMBDA f :
    Bind(after_ampersand(toks, f), LAMBDA amp :
    Bind(Lift(amp, identifier_maybe_soft_reserved(toks, amp.pos)), LAMBDA n :
    Bind(get_attributes(n), LAMBDA attrs :
    Bind(scoped(parameters_and_body(toks, enter(attrs, Scope("Function", n.val.name)))), LAMBDA pb :
    SOk(pb, [kind |-> "Function", name |-> n.val.name, by_ref |-> amp.pos # f.pos,
             attributes |-> attrs.val, params |-> pb.val.params,
             body |-> pb.val.body]))))))

\* functions::anonymous_function: function [&] ( parameters ) { statements }
anonymous_function(toks, s) ==
    Bind(get_attributes(s), LAMBDA attrs :
    Bind(Lift(attrs, skip(toks, attrs.pos, "Function")), LAMBDA f :
    Bind(after_ampersand(toks, f), LAMBDA amp :
    Bind(scoped(parameters_and_body(toks, enter(amp, Scope("AnonymousFunction", "")))), LAMBDA pb :
    SOk(pb, [kind |-> "Closure", by_ref |-> amp.pos # f.pos,
             attributes |-> attrs.val, params |-> pb.val.params,
             body |-> pb.val.body])))))

\* The arguments of a call: expressions separated by commas.
arguments_loop(toks, s, args) ==
    IF current(toks, s.pos).kind = "RightParen" THEN SOk(s, args)
    ELSE Bind(expressions_for(toks, s, 0), LAMBDA a :
              IF current(toks, a.pos).kind = "Comma"
              THEN arguments_loop(toks, advance(toks, a), Append(args, a.val))
              ELSE SOk(a, Append(args, a.val)))

\* Binding powers: static access, call, + and -.
StaticAccessPower == 21
CallPower == 19
AdditivePower == <<11, 12>>

\* The loop of expression(bp); l is the left-hand side parsed so far.
expressions_loop(toks, l, bp) ==
    LET kind == current(toks, l.pos).kind IN
    IF kind = "DoubleColon" /\ StaticAccessPower >= bp
    THEN Bind(Lift(l, identifier_maybe_reserved(toks, stream_next(toks, l.pos))), LAMBDA m :
              expressions_loop(toks,
                  SOk(m, [kind |-> "ConstantFetch", target |-> l.val, constant |-> m.val.name]),
                  bp))
    ELSE IF kind = "LeftParen" /\ CallPower >= bp
    THEN Bind(arguments_loop(toks, advance(toks, l), <<>>), LAMBDA args :
         Bind(Lift(args, skip_right_parenthesis(toks, args.pos)), LAMBDA rp :
              expressions_loop(toks,
                  SOk(rp, [kind |-> "Call", target |-> l.val, args |-> args.val]), bp)))
    ELSE IF kind \in {"Plus", "Minus"} /\ AdditivePower[1] >= bp
    THEN Bind(expressions_for(toks, advance(toks, l), AdditivePower[2]), LAMBDA rhs :
              expressions_loop(toks,
                  SOk(rhs, [kind |-> "Infix", lhs |-> l.val, op |-> kind, rhs |-> rhs.val]),
                  bp))
    ELSE l

\* The prefix form at the cursor.
expressions_prefix(toks, s) ==
    LET t == current(toks, s.pos) IN
    IF t.kind = "Eof" THEN SErr(s, UnexpectedEndOfInput)
    ELSE IF t.kind = "Int"
    THEN SOk(advance(toks, s), [kind |-> "Int", value |-> t.val])
    ELSE IF t.kind = "Variable"
    THEN SOk(advance(toks, s), [kind |-> "Variable", name |-> t.val])
    ELSE IF is_identifier_maybe_soft_reserved(t.kind)
    THEN SOk(advance(toks, s), [kind |-> "Identifier", name |-> TokenName(t)])
    ELSE IF t.kind = "Function" THEN anonymous_function(toks, s)
    ELSE SErr(s, unexpected_token_err("expression"))

expressions_for(toks, s, bp) ==
    Bind(expressions_prefix(toks, s), LAMBDA l : expressions_loop(toks, l, bp))

\* expressions::create
expressions_create(toks, s) == expressions_for(toks, s, 0)

\* expressions::attributes: the expression after gathered attributes is a
\* closure, which takes them; anything else leaves them unconsumed.
expressions_attributes(toks, s) ==
    IF current(toks, s.pos).kind = "Function" THEN anonymous_function(toks, s)
    ELSE SErr(s, UnconsumedAttributes)

(***************************************************************************)
(* Modifiers and the members of a class-like body (4.5 and 4.9 of the      *)
(* specification), and traits::parse and traits::member.                   *)
(***************************************************************************)
ModifierKinds ==
    {"Public", "Protected", "Private", "Static", "Final", "Abstract", "Readonly"}
VisibilityKinds == {"Public", "Protected", "Private"}

Elements(seq) == {seq[i] : i \in 1..Len(seq)}

\* modifiers::collect: the run of modifier tokens at the cursor.
RECURSIVE collect_from(_, _, _)
collect_from(toks, p, modifiers) ==
    IF current(toks, p).kind \in ModifierKinds
    THEN IF current(toks, p).kind \in Elements(modifiers)
         THEN Err(p, DuplicateModifier)
         ELSE collect_from(toks, stream_next(toks, p), Append(modifiers, current(toks, p).kind))
    ELSE Ok(p, modifiers)

collect(toks, p) == collect_from(toks, p, <<>>)

\* The projections of the collected modifiers.
one_visibility(modifiers) == Cardinality(Elements(modifiers) \cap VisibilityKinds) <= 1

constant_group(s, modifiers) ==
    IF /\ Elements(modifiers) \subseteq {"Final", "Public", "Protected", "Private"}
       /\ one_visibility(modifiers)
    THEN SOk(s, modifiers) ELSE SErr(s, ModifierConflict)

property_group(s, modifiers) ==
    IF /\ Elements(modifiers) \subseteq {"Public", "Protected", "Private", "Static", "Readonly"}
       /\ one_visibility(modifiers)
    THEN SOk(s, modifiers) ELSE SErr(s, ModifierConflict)

method_group(s, modifiers) ==
    IF /\ Elements(modifiers) \subseteq
              {"Public", "Protected", "Private", "Static", "Final", "Abstract"}
       /\ one_visibility(modifiers)
       /\ ~({"Abstract", "Final"} \subseteq Elements(modifiers))
       /\ ~({"Abstract", "Private"} \subseteq Elements(modifiers))
    THEN SOk(s, modifiers) ELSE SErr(s, ModifierConflict)

class_group(s, modifiers) ==
    IF /\ Elements(modifiers) \subseteq {"Final", "Abstract", "Readonly"}
       /\ ~({"Abstract", "Final"} \subseteq Elements(modifiers))
    THEN SOk(s, modifiers) ELSE SErr(s, ModifierConflict)

\* name = expression, ... of a constant group
RECURSIVE constant_entries(_, _, _)
constant_entries(toks, s, entries) ==
    Bind(Lift(s, identifier_maybe_reserved(toks, s.pos)), LAMBDA n :
    Bind(Lift(n, skip(toks, n.pos, "Equals")), LAMBDA eq :
    Bind(expressions_create(toks, eq), LAMBDA value :
         IF current(toks, value.pos).kind = "Comma"
         THEN constant_entries(toks, advance(toks, value),
                               Append(entries, [name |-> n.val.name, value |-> value.val]))
         ELSE SOk(value, Append(entries, [name |-> n.val.name, value |-> value.val])))))

\* constants::classish
constants_classish(toks, s, modifiers) ==
    Bind(get_attributes(s), LAMBDA attrs :
    Bind(Lift(attrs, skip(toks, attrs.pos, "Const")), LAMBDA c :
    Bind(constant_entries(toks, c, <<>>), LAMBDA entries :
    Bind(Lift(entries, skip_semicolon(toks, entries.pos)), LAMBDA semi :
    SOk(semi, [kind |-> "Constant", attributes |-> attrs.val, modifiers |-> modifiers,
               entries |-> entries.val])))))

\* $a [= expression], ... of a property group
RECURSIVE property_entries(_, _, _)
property_entries(toks, s, entries) ==
    IF current(toks, s.pos).kind # "Variable" THEN SErr(s, expected_token_err("a variable"))
    ELSE Bind(IF current(toks, stream_next(toks, s.pos)).kind = "Equals"
              THEN Bind(expressions_create(toks, advance(toks, advance(toks, s))), LAMBDA d :
                        SOk(d, <<d.val>>))
              ELSE SOk(advance(toks, s), <<>>), LAMBDA value :
         IF current(toks, value.pos).kind = "Comma"
         THEN property_entries(toks, advance(toks, value),
                  Append(entries, [var |-> current(toks, s.pos).val, value |-> value.val]))
         ELSE SOk(value,
                  Append(entries, [var |-> current(toks, s.pos).val, value |-> value.val])))

\* properties::parse
properties_parse(toks, s, class, modifiers) ==
    Bind(get_attributes(s), LAMBDA attrs :
    Bind(property_entries(toks, attrs, <<>>), LAMBDA entries :
    Bind(Lift(entries, skip_semicolon(toks, entries.pos)), LAMBDA semi :
    SOk(semi, [kind |-> "Property", class |-> class, attributes |-> attrs.val,
               modifiers |-> modifiers, entries |-> entries.val]))))

\* properties::parse_var
properties_parse_var(toks, s, class) ==
    Bind(Lift(s, skip(toks, s.pos, "Var")), LAMBDA v :
    Bind(get_attributes(v), LAMBDA attrs :
    Bind(property_entries(toks, attrs, <<>>), LAMBDA entries :
    Bind(Lift(entries, skip_semicolon(toks, entries.pos)), LAMBDA semi :
    SOk(semi, [kind |-> "VariableProperty", class |-> class, attributes |-> attrs.val,
               entries |-> entries.val])))))

\* The body of a method: `;` when abstract, a block otherwise.
method_body(toks, s, modifiers) ==
    Bind(parameters(toks, s), LAMBDA params :
    Bind(IF "Abstract" \in Elements(modifiers)
         THEN Bind(Lift(params, skip_semicolon(toks, params.pos)), LAMBDA semi :
                   SOk(semi, <<>>))
         ELSE braced_statements(toks, params), LAMBDA b :
    SOk(b, [params |-> params.val, body |-> b.val])))

\* functions::method
method(toks, s, modifiers) ==
    Bind(Lift(s, skip(toks, s.pos, "Function")), LAMBDA f :
    Bind(after_ampersand(toks, f), LAMBDA amp :
    Bind(Lift(amp, identifier_maybe_reserved(toks, amp.pos)), LAMBDA n :
    Bind(get_attributes(n), LAMBDA attrs :
    Bind(scoped(method_body(toks, enter(attrs, Scope("Method", n.val.name)), modifiers)),
         LAMBDA pb :
    SOk(pb, [kind |-> "Method", name |-> n.val.name, attributes |-> attrs.val,
             modifiers |-> modifiers, params |-> pb.val.params, body |-> pb.val.body]))))))

\* traits::member after modifiers::collect.
member_after_modifiers(toks, m, class) ==
    IF current(toks, m.pos).kind = "Const"
    THEN Bind(constant_group(m, m.val), LAMBDA g : constants_classish(toks, g, g.val))
    ELSE IF current(toks, m.pos).kind = "Function"
    THEN Bind(method_group(m, m.val), LAMBDA g : method(toks, g, g.val))
    ELSE Bind(property_group(m, m.val), LAMBDA g : properties_parse(toks, g, class, g.val))

\* traits::member after gather_attributes; g.val is has_attributes.
member_after_attributes(toks, g, class) ==
    IF ~g.val /\ current(toks, g.pos).kind = "Use"
    THEN Bind(Lift(g, usage(toks, g.pos)), LAMBDA u :
              SOk(u, [kind |-> "TraitUsage", usage |-> u.val]))
    ELSE IF current(toks, g.pos).kind = "Var"
    THEN properties_parse_var(toks, g, class)
    ELSE Bind(Lift(g, collect(toks, g.pos)), LAMBDA m :
              member_after_modifiers(toks, m, class))

member(toks, s, class) ==
    Bind(gather_attributes(toks, s), LAMBDA g : member_after_attributes(toks, g, class))

\* while current != RightBrace && !is_eof { members.push(member(state, class)?) }
RECURSIVE trait_members(_, _, _, _)
trait_members(toks, s, class, members) ==
    IF current(toks, s.pos).kind # "RightBrace" /\ current(toks, s.pos).kind # "Eof"
    THEN Bind(member(toks, s, class), LAMBDA m :
              trait_members(toks, m, class, Append(members, m.val)))
    ELSE SOk(s, members)

\* The block of scoped! in traits::parse: { members }
trait_block(toks, s, class) ==
    Bind(Lift(s, skip_left_brace(toks, s.pos)), LAMBDA lb :
    Bind(trait_members(toks, lb, class, <<>>), LAMBDA members :
    Bind(Lift(members, skip_right_brace(toks, members.pos)), LAMBDA rb :
    SOk(rb, [members |-> members.val, end |-> rb.val]))))

\* traits::parse with the gathered attributes left in the buffer.
traits_parse_keeps_attributes(toks, s) ==
    Bind(Lift(s, skip(toks, s.pos, "Trait")), LAMBDA start :
    Bind(Lift(start, type_identifier(toks, start.pos)), LAMBDA n :
    Bind(scoped(trait_block(toks, enter(n, Scope("Trait", n.val.name)), n.val.name)),
         LAMBDA block :
    SOk(block, [kind |-> "Trait", start |-> start.val, end |-> block.val.end,
                name |-> n.val.name, attributes |-> n.attributes,
                members |-> block.val.members]))))

\* traits::parse
traits_parse(toks, s) ==
    Bind(Lift(s, skip(toks, s.pos, "Trait")), LAMBDA start :
    Bind(Lift(start, type_identifier(toks, start.pos)), LAMBDA n :
    Bind(get_attributes(n), LAMBDA attrs :
    Bind(scoped(trait_block(toks, enter(attrs, Scope("Trait", n.val.name)), n.val.name)),
         LAMBDA block :
    SOk(block, [kind |-> "Trait", start |-> start.val, end |-> block.val.end,
                name |-> n.val.name, attributes |-> attrs.val,
                members |-> block.val.members])))))

\* A class-like declaration after its keyword: name { members }
classish(toks, s, kind, modifiers) ==
    Bind(Lift(s, type_identifier(toks, s.pos)), LAMBDA n :
    Bind(get_attributes(n), LAMBDA attrs :
    Bind(scoped(trait_block(toks, enter(attrs, Scope(kind, n.val.name)), n.val.name)),
         LAMBDA block :
    SOk(block, [kind |-> kind, name |-> n.val.name, attributes |-> attrs.val,
                modifiers |-> modifiers, members |-> block.val.members]))))

\* classes::parse: [abstract | final | readonly]* class name { members }
classes_parse(toks, s) ==
    Bind(Lift(s, collect(toks, s.pos)), LAMBDA m :
    Bind(class_group(m, m.val), LAMBDA g :
    Bind(Lift(g, skip(toks, g.pos, "Class")), LAMBDA c :
    classish(toks, c, "Class", g.val))))

\* interfaces::parse
interfaces_parse(toks, s) ==
    Bind(Lift(s, skip(toks, s.pos, "Interface")), LAMBDA i : classish(toks, i, "Interface", <<>>))

\* enums::parse
enums_parse(toks, s) ==
    Bind(Lift(s, skip(toks, s.pos, "Enum")), LAMBDA e : classish(toks, e, "Enum", <<>>))

(***************************************************************************)
(* statement and top_level_statement of src/parser/mod.rs: one arm of the  *)
(* model for each arm of the two matches, in the order of the source.      *)
(***************************************************************************)
\* The guards of the Readonly, Enum and Function arms.
readonly_guard_any(pk) == TRUE

readonly_guard(pk) == pk.kind # "LeftParen"

enum_guard_any(pk) == TRUE

enum_guard(pk) == pk.kind \notin {"LeftParen", "DoubleColon", "Colon"}

function_guard(pk) == is_identifier_maybe_soft_reserved(pk.kind) \/ pk.kind = "Ampersand"

\* if !is_identifier_maybe_soft_reserved(&state.stream.lookahead(1).kind)
ampersand_guard(toks, p) == ~is_identifier_maybe_soft_reserved(lookahead(toks, p, 1).kind)

\* Statement::Expression(utils::semicolon_terminated(state, &inner)?)
expression_statement(toks, inner) ==
    Bind(semicolon_terminated(toks, inner), LAMBDA e :
    SOk(e, [kind |-> "Expression", expr |-> e.val]))

\* loop { values.push(expressions::create(state)?); if Comma { next } else { break } }
RECURSIVE values_loop(_, _, _)
values_loop(toks, s, values) ==
    Bind(expressions_create(toks, s), LAMBDA v :
         IF current(toks, v.pos).kind = "Comma"
         THEN values_loop(toks, advance(toks, v), Append(values, v.val))
         ELSE SOk(v, Append(values, v.val)))

statement_short_echo(toks, s) ==
    Bind(values_loop(toks, advance(toks, s), <<>>), LAMBDA values :
    Bind(Lift(values, skip_semicolon(toks, values.pos)), LAMBDA semi :
    SOk(semi, [kind |-> "ShortEcho", span |-> s.pos, values |-> values.val])))

statement_mod_echo(toks, s) ==
    Bind(values_loop(toks, advance(toks, s), <<>>), LAMBDA values :
    Bind(Lift(values, skip_semicolon(toks, values.pos)), LAMBDA semi :
    SOk(semi, [kind |-> "Echo", values |-> values.val])))

statement_mod_return(toks, s) ==
    IF current(toks, stream_next(toks, s.pos)).kind = "SemiColon"
    THEN Bind(Lift(s, skip_semicolon(toks, stream_next(toks, s.pos))), LAMBDA semi :
              SOk(semi, [kind |-> "Return", value |-> <<>>]))
    ELSE Bind(expressions_create(toks, advance(toks, s)), LAMBDA value :
         Bind(Lift(value, skip_semicolon(toks, value.pos)), LAMBDA semi :
              SOk(semi, [kind |-> "Return", value |-> <<value.val>>])))

\* goto::goto_statement and goto::label_statement
goto_statement(toks, s) ==
    Bind(Lift(s, skip(toks, s.pos, "Goto")), LAMBDA g :
    Bind(Lift(g, identifier_maybe_reserved(toks, g.pos)), LAMBDA label :
    Bind(Lift(label, skip_semicolon(toks, label.pos)), LAMBDA semi :
    SOk(semi, [kind |-> "Goto", label |-> label.val.name]))))

label_statement(toks, s) ==
    Bind(Lift(s, identifier_maybe_reserved(toks, s.pos)), LAMBDA label :
    Bind(Lift(label, skip_colon(toks, label.pos)), LAMBDA colon :
    SOk(colon, [kind |-> "Label", label |-> label.val.name])))

\* expect_literal!(state)
expect_literal(toks, p) ==
    IF current(toks, p).kind = "Int"
    THEN Ok(stream_next(toks, p), [kind |-> "Int", value |-> current(toks, p).val])
    ELSE Err(p, expected_token_err("a literal"))

RECURSIVE declare_entries(_, _, _)
declare_entries(toks, p, entries) ==
    Bind(identifier(toks, p), LAMBDA key :
    Bind(skip(toks, key.pos, "Equals"), LAMBDA span :
    Bind(expect_literal(toks, span.pos), LAMBDA value :
         IF current(toks, value.pos).kind = "Comma"
         THEN declare_entries(toks, stream_next(toks, value.pos),
                  Append(entries, [key |-> key.val.name, value |-> value.val]))
         ELSE Ok(value.pos, Append(entries, [key |-> key.val.name, value |-> value.val])))))

declare_body(toks, s) ==
    LET k == current(toks, s.pos).kind IN
    IF k = "SemiColon"
    THEN Bind(Lift(s, skip_semicolon(toks, s.pos)), LAMBDA span :
              SOk(span, [kind |-> "Noop"]))
    ELSE IF k = "LeftBrace"
    THEN Bind(braced_statements(toks, s), LAMBDA b :
              SOk(b, [kind |-> "Braced", statements |-> b.val]))
    ELSE IF k = "Colon"
    THEN Bind(Lift(s, skip_colon(toks, s.pos)), LAMBDA start :
         Bind(multiple_statements(toks, start, "EndDeclare", <<>>), LAMBDA statements :
         Bind(Lift(statements, skip(toks, statements.pos, "EndDeclare")), LAMBDA e :
         Bind(Lift(e, skip_semicolon(toks, e.pos)), LAMBDA semi :
              SOk(semi, [kind |-> "Block", statements |-> statements.val])))))
    ELSE Bind(expressions_create(toks, s), LAMBDA e :
         Bind(Lift(e, skip_semicolon(toks, e.pos)), LAMBDA end :
              SOk(end, [kind |-> "Expression", expression |-> e.val])))

statement_declare(toks, s) ==
    Bind(Lift(s, skip(toks, s.pos, "Declare")), LAMBDA span :
    Bind(Lift(span, skip_left_parenthesis(toks, span.pos)), LAMBDA start :
    Bind(Lift(start, declare_entries(toks, start.pos, <<>>)), LAMBDA entries :
    Bind(Lift(entries, skip_right_parenthesis(toks, entries.pos)), LAMBDA end :
    Bind(declare_body(toks, end), LAMBDA b :
    SOk(b, [kind |-> "Declare", entries |-> entries.val, body |-> b.val]))))))

\* variables::dynamic_variable and variables::simple_variable
simple_variable(toks, p) ==
    IF current(toks, p).kind = "Variable"
    THEN Ok(stream_next(toks, p), current(toks, p).val)
    ELSE Err(p, expected_token_err("a variable"))

RECURSIVE global_variables(_, _, _)
global_variables(toks, p, variables) ==
    Bind(simple_variable(toks, p), LAMBDA v :
         IF current(toks, v.pos).kind = "Comma"
         THEN global_variables(toks, stream_next(toks, v.pos), Append(variables, v.val))
         ELSE Ok(v.pos, Append(variables, v.val)))

statement_global(toks, s) ==
    Bind(Lift(s, global_variables(toks, stream_next(toks, s.pos), <<>>)), LAMBDA variables :
    Bind(Lift(variables, skip_semicolon(toks, variables.pos)), LAMBDA semi :
    SOk(semi, [kind |-> "Global", span |-> s.pos, variables |-> variables.val])))

RECURSIVE static_vars(_, _, _)
static_vars(toks, s, vars_so_far) ==
    Bind(Lift(s, simple_variable(toks, s.pos)), LAMBDA var :
    Bind(IF current(toks, var.pos).kind = "Equals"
         THEN Bind(expressions_create(toks, advance(toks, var)), LAMBDA d : SOk(d, <<d.val>>))
         ELSE SOk(var, <<>>), LAMBDA default :
         IF current(toks, default.pos).kind = "Comma"
         THEN static_vars(toks, advance(toks, default),
                  Append(vars_so_far, [var |-> var.val, default |-> default.val]))
         ELSE SOk(default, Append(vars_so_far, [var |-> var.val, default |-> default.val]))))

statement_static(toks, s) ==
    Bind(static_vars(toks, advance(toks, s), <<>>), LAMBDA vs :
    Bind(Lift(vs, skip_semicolon(toks, vs.pos)), LAMBDA semi :
    SOk(semi, [kind |-> "Static", vars |-> vs.val])))

statement_inline_html(toks, s) ==
    Bind(skip_open_tag(toks, advance(toks, s)), LAMBDA o :
    SOk(o, [kind |-> "InlineHtml", html |-> current(toks, s.pos).val]))

(***************************************************************************)
(* The productions that statement and top_level_statement call for the     *)
(* control-flow keywords and for namespace, use and const: loops::*,       *)
(* control_flow::*, try_block::try_block, namespaces::namespace,           *)
(* uses::use_statement and constants::parse.  The specification leaves     *)
(* their grammar to analogy (section 1); they are written here for the     *)
(* forms named in the comment of each.                                     *)
(***************************************************************************)
RECURSIVE top_level_statement(_, _)

\* ( expression )
parenthesized(toks, s) ==
    Bind(Lift(s, skip_left_parenthesis(toks, s.pos)), LAMBDA lp :
    Bind(expressions_create(toks, lp), LAMBDA e :
    Bind(Lift(e, skip_right_parenthesis(toks, e.pos)), LAMBDA rp :
    SOk(rp, e.val))))

\* Statements up to one of the kinds in untils, or Eof.
RECURSIVE statements_until(_, _, _, _)
statements_until(toks, s, untils, statements) ==
    IF current(toks, s.pos).kind \notin untils \cup {"Eof"}
    THEN Bind(mod_statement(toks, s), LAMBDA r :
              statements_until(toks, r, untils, Append(statements, r.val)))
    ELSE SOk(s, statements)

\* The body of a loop: one statement, or `: statements end ;`
loop_body(toks, s, end) ==
    IF current(toks, s.pos).kind = "Colon"
    THEN Bind(statements_until(toks, advance(toks, s), {end}, <<>>), LAMBDA b :
         Bind(Lift(b, skip(toks, b.pos, end)), LAMBDA e :
         Bind(Lift(e, skip_semicolon(toks, e.pos)), LAMBDA semi :
         SOk(semi, b.val))))
    ELSE Bind(mod_statement(toks, s), LAMBDA b : SOk(b, <<b.val>>))

\* loops::while_loop: while ( condition ) body
while_loop(toks, s) ==
    Bind(Lift(s, skip(toks, s.pos, "While")), LAMBDA w :
    Bind(parenthesized(toks, w), LAMBDA condition :
    Bind(loop_body(toks, condition, "EndWhile"), LAMBDA b :
    SOk(b, [kind |-> "While", condition |-> condition.val, body |-> b.val]))))

\* loops::do_loop: do statement while ( condition ) ;
do_loop(toks, s) ==
    Bind(Lift(s, skip(toks, s.pos, "Do")), LAMBDA d :
    Bind(mod_statement(toks, d), LAMBDA b :
    Bind(Lift(b, skip(toks, b.pos, "While")), LAMBDA w :
    Bind(parenthesized(toks, w), LAMBDA condition :
    Bind(Lift(condition, skip_semicolon(toks, condition.pos)), LAMBDA semi :
    SOk(semi, [kind |-> "DoWhile", body |-> b.val, condition |-> condition.val]))))))

\* The expressions of one part of a for header, up to the kind that ends it.
RECURSIVE for_expressions(_, _, _, _)
for_expressions(toks, s, until, expressions) ==
    IF current(toks, s.pos).kind = until THEN SOk(s, expressions)
    ELSE Bind(expressions_create(toks, s), LAMBDA v :
              IF current(toks, v.pos).kind = "Comma"
              THEN for_expressions(toks, advance(toks, v), until, Append(expressions, v.val))
              ELSE SOk(v, Append(expressions, v.val)))

\* loops::for_loop: for ( init ; condition ; step ) body
for_loop(toks, s) ==
    Bind(Lift(s, skip(toks, s.pos, "For")), LAMBDA f :
    Bind(Lift(f, skip_left_parenthesis(toks, f.pos)), LAMBDA lp :
    Bind(for_expressions(toks, lp, "SemiColon", <<>>), LAMBDA init :
    Bind(Lift(init, skip_semicolon(toks, init.pos)), LAMBDA semi1 :
    Bind(for_expressions(toks, semi1, "SemiColon", <<>>), LAMBDA condition :
    Bind(Lift(condition, skip_semicolon(toks, condition.pos)), LAMBDA semi2 :
    Bind(for_expressions(toks, semi2, "RightParen", <<>>), LAMBDA step :
    Bind(Lift(step, skip_right_parenthesis(toks, step.pos)), LAMBDA rp :
    Bind(loop_body(toks, rp, "EndFor"), LAMBDA b :
    SOk(b, [kind |-> "For", init |-> init.val, condition |-> condition.val,
            step |-> step.val, body |-> b.val]))))))))))

\* [&] expression: the key or the value of foreach
foreach_target(toks, s) ==
    IF current(toks, s.pos).kind = "Ampersand"
    THEN Bind(expressions_create(toks, advance(toks, s)), LAMBDA v :
              SOk(v, [by_ref |-> TRUE, target |-> v.val]))
    ELSE Bind(expressions_create(toks, s), LAMBDA v :
              SOk(v, [by_ref |-> FALSE, target |-> v.val]))

\* loops::foreach_loop: foreach ( expression as [key =>] value ) body
foreach_loop(toks, s) ==
    Bind(Lift(s, skip(toks, s.pos, "Foreach")), LAMBDA f :
    Bind(Lift(f, skip_left_parenthesis(toks, f.pos)), LAMBDA lp :
    Bind(expressions_create(toks, lp), LAMBDA iterated :
    Bind(Lift(iterated, skip(toks, iterated.pos, "As")), LAMBDA kw :
    Bind(foreach_target(toks, kw), LAMBDA first :
    Bind(IF current(toks, first.pos).kind = "DoubleArrow"
         THEN Bind(foreach_target(toks, advance(toks, first)), LAMBDA second :
                   SOk(second, [key |-> <<first.val>>, value |-> second.val]))
         ELSE SOk(first, [key |-> <<>>, value |-> first.val]), LAMBDA targets :
    Bind(Lift(targets, skip_right_parenthesis(toks, targets.pos)), LAMBDA rp :
    Bind(loop_body(toks, rp, "EndForeach"), LAMBDA b :
    SOk(b, [kind |-> "Foreach", expr |-> iterated.val, key |-> targets.val.key,
            value |-> targets.val.value, body |-> b.val])))))))))

\* The optional level of break and continue, then `;`
loop_level(toks, s, kind) ==
    Bind(IF current(toks, s.pos).kind = "Int"
         THEN SOk(advance(toks, s), <<current(toks, s.pos).val>>)
         ELSE SOk(s, <<>>), LAMBDA level :
    Bind(Lift(level, skip_semicolon(toks, level.pos)), LAMBDA semi :
    SOk(semi, [kind |-> kind, level |-> level.val])))

\* loops::continue_statement and loops::break_statement
continue_statement(toks, s) ==
    Bind(Lift(s, skip(toks, s.pos, "Continue")), LAMBDA c : loop_level(toks, c, "Continue"))

break_statement(toks, s) ==
    Bind(Lift(s, skip(toks, s.pos, "Break")), LAMBDA c : loop_level(toks, c, "Break"))

\* The cases of switch: case expression : statements, default : statements
RECURSIVE switch_cases(_, _, _, _)
switch_cases(toks, s, end, cases) ==
    LET k == current(toks, s.pos).kind IN
    IF k \in {end, "Eof"} THEN SOk(s, cases)
    ELSE IF k = "Case"
    THEN Bind(expressions_create(toks, advance(toks, s)), LAMBDA condition :
         Bind(IF current(toks, condition.pos).kind = "SemiColon"
              THEN advance(toks, condition)
              ELSE Lift(condition, skip_colon(toks, condition.pos)), LAMBDA sep :
         Bind(statements_until(toks, sep, {"Case", "Default", end}, <<>>), LAMBDA b :
              switch_cases(toks, b, end,
                  Append(cases, [condition |-> <<condition.val>>, body |-> b.val])))))
    ELSE IF k = "Default"
    THEN Bind(IF current(toks, stream_next(toks, s.pos)).kind = "SemiColon"
              THEN advance(toks, advance(toks, s))
              ELSE Lift(s, skip_colon(toks, stream_next(toks, s.pos))), LAMBDA sep :
         Bind(statements_until(toks, sep, {"Case", "Default", end}, <<>>), LAMBDA b :
              switch_cases(toks, b, end, Append(cases, [condition |-> <<>>, body |-> b.val]))))
    ELSE SErr(s, expected_token_err("case, default or the end of switch"))

\* control_flow::switch_statement: switch ( e ) { cases } or : cases endswitch ;
switch_statement(toks, s) ==
    Bind(Lift(s, skip(toks, s.pos, "Switch")), LAMBDA sw :
    Bind(parenthesized(toks, sw), LAMBDA condition :
    Bind(IF current(toks, condition.pos).kind = "Colon"
         THEN Bind(switch_cases(toks, advance(toks, condition), "EndSwitch", <<>>), LAMBDA c :
              Bind(Lift(c, skip(toks, c.pos, "EndSwitch")), LAMBDA e :
              Bind(Lift(e, skip_semicolon(toks, e.pos)), LAMBDA semi : SOk(semi, c.val))))
         ELSE Bind(Lift(condition, skip_left_brace(toks, condition.pos)), LAMBDA lb :
              Bind(switch_cases(toks, lb, "RightBrace", <<>>), LAMBDA c :
              Bind(Lift(c, skip_right_brace(toks, c.pos)), LAMBDA rb : SOk(rb, c.val)))),
         LAMBDA cases :
    SOk(cases, [kind |-> "Switch", condition |-> condition.val, cases |-> cases.val]))))

\* elseif ( condition ) statement, as often as it comes
RECURSIVE else_ifs(_, _, _)
else_ifs(toks, s, branches) ==
    IF current(toks, s.pos).kind = "ElseIf"
    THEN Bind(parenthesized(toks, advance(toks, s)), LAMBDA condition :
         Bind(mod_statement(toks, condition), LAMBDA b :
              else_ifs(toks, b, Append(branches, [condition |-> condition.val,
                                                  body |-> b.val]))))
    ELSE SOk(s, branches)

\* elseif ( condition ) : statements, as often as it comes
RECURSIVE else_if_blocks(_, _, _)
else_if_blocks(toks, s, branches) ==
    IF current(toks, s.pos).kind = "ElseIf"
    THEN Bind(parenthesized(toks, advance(toks, s)), LAMBDA condition :
         Bind(Lift(condition, skip_colon(toks, condition.pos)), LAMBDA colon :
         Bind(statements_until(toks, colon, {"ElseIf", "Else", "EndIf"}, <<>>), LAMBDA b :
              else_if_blocks(toks, b, Append(branches, [condition |-> condition.val,
                                                        body |-> b.val])))))
    ELSE SOk(s, branches)

\* if ( condition ) statement [elseif ..]* [else statement]
if_statement_form(toks, condition) ==
    Bind(mod_statement(toks, condition), LAMBDA then :
    Bind(else_ifs(toks, then, <<>>), LAMBDA branches :
    Bind(IF current(toks, branches.pos).kind = "Else"
         THEN Bind(mod_statement(toks, advance(toks, branches)), LAMBDA b : SOk(b, <<b.val>>))
         ELSE SOk(branches, <<>>), LAMBDA otherwise :
    SOk(otherwise, [kind |-> "If", condition |-> condition.val, then |-> <<then.val>>,
                    else_ifs |-> branches.val, else |-> otherwise.val]))))

\* if ( condition ) : statements [elseif ..]* [else : statements] endif ;
if_block_form(toks, condition) ==
    Bind(statements_until(toks, advance(toks, condition), {"ElseIf", "Else", "EndIf"}, <<>>),
         LAMBDA then :
    Bind(else_if_blocks(toks, then, <<>>), LAMBDA branches :
    Bind(IF current(toks, branches.pos).kind = "Else"
         THEN Bind(Lift(branches, skip_colon(toks, stream_next(toks, branches.pos))),
                   LAMBDA colon :
              Bind(statements_until(toks, colon, {"EndIf"}, <<>>), LAMBDA b :
                   SOk(b, <<b.val>>)))
         ELSE SOk(branches, <<>>), LAMBDA otherwise :
    Bind(Lift(otherwise, skip(toks, otherwise.pos, "EndIf")), LAMBDA e :
    Bind(Lift(e, skip_semicolon(toks, e.pos)), LAMBDA semi :
    SOk(semi, [kind |-> "If", condition |-> condition.val, then |-> then.val,
               else_ifs |-> branches.val, else |-> otherwise.val]))))))

\* control_flow::if_statement
if_statement(toks, s) ==
    Bind(Lift(s, skip(toks, s.pos, "If")), LAMBDA i :
    Bind(parenthesized(toks, i), LAMBDA condition :
         IF current(toks, condition.pos).kind = "Colon"
         THEN if_block_form(toks, condition)
         ELSE if_statement_form(toks, condition)))

\* catch ( Type [$var] ) { statements }, as often as it comes
RECURSIVE catch_blocks(_, _, _)
catch_blocks(toks, s, catches) ==
    IF current(toks, s.pos).kind = "Catch"
    THEN Bind(Lift(s, skip_left_parenthesis(toks, stream_next(toks, s.pos))), LAMBDA lp :
         Bind(Lift(lp, full_type_name(toks, lp.pos)), LAMBDA type :
         Bind(IF current(toks, type.pos).kind = "Variable"
              THEN SOk(advance(toks, type), <<current(toks, type.pos).val>>)
              ELSE SOk(type, <<>>), LAMBDA var :
         Bind(Lift(var, skip_right_parenthesis(toks, var.pos)), LAMBDA rp :
         Bind(braced_statements(toks, rp), LAMBDA b :
              catch_blocks(toks, b, Append(catches, [type |-> type.val, var |-> var.val,
                                                     body |-> b.val])))))))
    ELSE SOk(s, catches)

TryWithoutCatchOrFinally == [kind |-> "TryWithoutCatchOrFinally", msg |-> ""]

\* try_block::try_block: try { } catch ( .. ) { } .. [finally { }]
try_block(toks, s) ==
    Bind(Lift(s, skip(toks, s.pos, "Try")), LAMBDA t :
    Bind(braced_statements(toks, t), LAMBDA b :
    Bind(catch_blocks(toks, b, <<>>), LAMBDA catches :
    Bind(IF current(toks, catches.pos).kind = "Finally"
         THEN Bind(braced_statements(toks, advance(toks, catches)), LAMBDA f :
                   SOk(f, <<f.val>>))
         ELSE SOk(catches, <<>>), LAMBDA finally :
         IF catches.val = <<>> /\ finally.val = <<>>
         THEN SErr(finally, TryWithoutCatchOrFinally)
         ELSE SOk(finally, [kind |-> "Try", body |-> b.val, catches |-> catches.val,
                            finally |-> finally.val])))))

\* The statements of a namespace: top-level statements up to `}`, the next
\* namespace, or Eof.
RECURSIVE namespace_statements(_, _, _)
namespace_statements(toks, s, statements) ==
    IF current(toks, s.pos).kind \notin {"RightBrace", "Namespace", "Eof"}
    THEN Bind(top_level_statement(toks, s), LAMBDA r :
              namespace_statements(toks, r, Append(statements, r.val)))
    ELSE SOk(s, statements)

\* namespace [name] { statements }
braced_namespace(toks, s, ns) ==
    Bind(Lift(s, skip_left_brace(toks, s.pos)), LAMBDA lb :
    Bind(scoped(Bind(namespace_statements(toks, enter(lb, Scope("BracedNamespace", ns)), <<>>),
                   LAMBDA b :
              Bind(Lift(b, skip_right_brace(toks, b.pos)), LAMBDA rb : SOk(rb, b.val)))),
         LAMBDA body :
    SOk(body, [kind |-> "BracedNamespace", name |-> ns, body |-> body.val])))

\* namespace name ; statements
unbraced_namespace(toks, s, ns) ==
    Bind(Lift(s, skip_semicolon(toks, s.pos)), LAMBDA semi :
    Bind(scoped(namespace_statements(toks, enter(semi, Scope("Namespace", ns)), <<>>)),
         LAMBDA body :
    SOk(body, [kind |-> "Namespace", name |-> ns, body |-> body.val])))

\* namespaces::namespace
namespace(toks, s) ==
    Bind(Lift(s, skip(toks, s.pos, "Namespace")), LAMBDA kw :
         IF current(toks, kw.pos).kind = "Identifier"
         THEN IF current(toks, stream_next(toks, kw.pos)).kind = "LeftBrace"
              THEN braced_namespace(toks, advance(toks, kw), current(toks, kw.pos).val)
              ELSE unbraced_namespace(toks, advance(toks, kw), current(toks, kw.pos).val)
         ELSE braced_namespace(toks, kw, ""))

\* name [as alias], ... of a use statement
RECURSIVE use_entries(_, _, _)
use_entries(toks, p, uses) ==
    Bind(full_type_name(toks, p), LAMBDA n :
    Bind(IF current(toks, n.pos).kind = "As"
         THEN Bind(type_identifier(toks, stream_next(toks, n.pos)), LAMBDA a :
                   Ok(a.pos, <<a.val>>))
         ELSE Ok(n.pos, <<>>), LAMBDA alias :
         IF current(toks, alias.pos).kind = "Comma"
         THEN use_entries(toks, stream_next(toks, alias.pos),
                          Append(uses, [name |-> n.val, alias |-> alias.val]))
         ELSE Ok(alias.pos, Append(uses, [name |-> n.val, alias |-> alias.val]))))

\* uses::use_statement: use [function | const] name [as alias], ... ;
use_statement(toks, s) ==
    Bind(Lift(s, skip(toks, s.pos, "Use")), LAMBDA u :
    Bind(IF current(toks, u.pos).kind \in {"Function", "Const"}
         THEN SOk(advance(toks, u), current(toks, u.pos).kind)
         ELSE SOk(u, "Normal"), LAMBDA kind :
    Bind(Lift(kind, use_entries(toks, kind.pos, <<>>)), LAMBDA uses :
    Bind(Lift(uses, skip_semicolon(toks, uses.pos)), LAMBDA semi :
    SOk(semi, [kind |-> "Use", use_kind |-> kind.val, uses |-> uses.val])))))

\* constants::parse: const name = expression, ... ;
constants_parse(toks, s) ==
    Bind(Lift(s, skip(toks, s.pos, "Const")), LAMBDA c :
    Bind(constant_entries(toks, c, <<>>), LAMBDA entries :
    Bind(Lift(entries, skip_semicolon(toks, entries.pos)), LAMBDA semi :
    SOk(semi, [kind |-> "Constant", entries |-> entries.val]))))

\* The match of the branch with attributes.
statement_attributed(toks, s) ==
    LET k == current(toks, s.pos).kind
        pk == peek(toks, s.pos)
    IN  IF k = "Abstract" THEN Produced("class", classes_parse(toks, s))
        ELSE IF k = "Readonly" /\ readonly_guard(pk)
        THEN Produced("class", classes_parse(toks, s))
        ELSE IF k = "Final" THEN Produced("class", classes_parse(toks, s))
        ELSE IF k = "Class" THEN Produced("class", classes_parse(toks, s))
        ELSE IF k = "Interface" THEN Produced("interface", interfaces_parse(toks, s))
        ELSE IF k = "Trait" THEN Produced("trait", traits_parse(toks, s))
        ELSE IF k = "Enum" /\ enum_guard(pk) THEN Produced("enum", enums_parse(toks, s))
        ELSE IF k = "Function" /\ function_guard(pk)
        THEN Produced("function", function(toks, s))
        ELSE Produced("expression",
                      expression_statement(toks, expressions_attributes(toks, s)))

\* The match of the branch without attributes.
statement_plain(toks, s) ==
    LET t == current(toks, s.pos)
        k == current(toks, s.pos).kind
        pk == peek(toks, s.pos)
    IN  IF k = "OpenTag" /\ t.val = "Echo"
        THEN Produced("short_echo", statement_short_echo(toks, s))
        ELSE IF k = "Abstract" THEN Produced("class", classes_parse(toks, s))
        ELSE IF k = "Readonly" /\ readonly_guard(pk)
        THEN Produced("class", classes_parse(toks, s))
        ELSE IF k = "Final" THEN Produced("class", classes_parse(toks, s))
        ELSE IF k = "Class" THEN Produced("class", classes_parse(toks, s))
        ELSE IF k = "Interface" THEN Produced("interface", interfaces_parse(toks, s))
        ELSE IF k = "Trait" THEN Produced("trait", traits_parse(toks, s))
        ELSE IF k = "Enum" /\ enum_guard(pk) THEN Produced("enum", enums_parse(toks, s))
        ELSE IF k = "Function" /\ function_guard(pk)
        THEN Produced("function", function(toks, s))
        ELSE IF k = "Goto" THEN Produced("goto", goto_statement(toks, s))
        ELSE IF is_identifier_maybe_reserved(k) /\ pk.kind = "Colon"
        THEN Produced("label", label_statement(toks, s))
        ELSE IF k = "Declare" THEN Produced("declare", statement_declare(toks, s))
        ELSE IF k = "Global" THEN Produced("global", statement_global(toks, s))
        ELSE IF k = "Static" /\ pk.kind = "Variable"
        THEN Produced("static", statement_static(toks, s))
        ELSE IF k = "InlineHtml" THEN Produced("inline_html", statement_inline_html(toks, s))
        ELSE IF k = "Do" THEN Produced("do", do_loop(toks, s))
        ELSE IF k = "While" THEN Produced("while", while_loop(toks, s))
        ELSE IF k = "For" THEN Produced("for", for_loop(toks, s))
        ELSE IF k = "Foreach" THEN Produced("foreach", foreach_loop(toks, s))
        ELSE IF k = "Continue" THEN Produced("continue", continue_statement(toks, s))
        ELSE IF k = "Break" THEN Produced("break", break_statement(toks, s))
        ELSE IF k = "Switch" THEN Produced("switch", switch_statement(toks, s))
        ELSE IF k = "If" THEN Produced("if", if_statement(toks, s))
        ELSE IF k = "Echo" THEN Produced("echo", statement_mod_echo(toks, s))
        ELSE IF k = "Return" THEN Produced("return", statement_mod_return(toks, s))
        ELSE IF k = "SemiColon"
        THEN Produced("noop", SOk(advance(toks, s), [kind |-> "Noop", span |-> s.pos]))
        ELSE IF k = "Try" THEN Produced("try", try_block(toks, s))
        ELSE IF k = "LeftBrace" THEN Produced("block", block_statement(toks, s))
        ELSE Produced("expression",
                      expression_statement(toks, expressions_create(toks, s)))

\* The close tag after the production: if current is CloseTag { next }
statement_epilogue(toks, r) ==
    IF current(toks, r.pos).kind = "CloseTag"
    THEN [r EXCEPT !.pos = stream_next(toks, r.pos)]
    ELSE r

\* The Function arm returns from statement at once when `function &` is not
\* followed by a name: return Ok(Statement::Expression(..)).
returns_early(toks, s) ==
    /\ current(toks, s.pos).kind = "Function"
    /\ function_guard(peek(toks, s.pos))
    /\ peek(toks, s.pos).kind = "Ampersand"
    /\ ampersand_guard(toks, s.pos)

\* statement after gather_attributes and skip_open_tag.
statement_match(toks, s, has_attributes) ==
    IF returns_early(toks, s)
    THEN Produced("closure",
                  expression_statement(toks, expressions_attributes(toks, s)))
    ELSE Bind(IF has_attributes THEN statement_attributed(toks, s)
              ELSE statement_plain(toks, s),
              LAMBDA r : statement_epilogue(toks, r))

mod_statement(toks, s) ==
    Bind(gather_attributes(toks, s), LAMBDA has_attributes :
    Bind(skip_open_tag(toks, has_attributes), LAMBDA o :
    statement_match(toks, o, has_attributes.val)))

\* The HaltCompiler arm of top_level_statement.
halt_compiler(toks, s) ==
    IF current(toks, stream_next(toks, s.pos)).kind = "InlineHtml"
    THEN SOk(advance(toks, advance(toks, s)),
             [kind |-> "HaltCompiler",
              content |-> <<current(toks, stream_next(toks, s.pos)).val>>])
    ELSE SOk(advance(toks, s), [kind |-> "HaltCompiler", content |-> <<>>])

top_level_statement(toks, s) ==
    Bind(IF current(toks, s.pos).kind = "Namespace"
         THEN Produced("namespace", namespace(toks, s))
         ELSE IF current(toks, s.pos).kind = "Use"
         THEN Produced("use", use_statement(toks, s))
         ELSE IF current(toks, s.pos).kind = "Const"
         THEN Produced("const", constants_parse(toks, s))
         ELSE IF current(toks, s.pos).kind = "HaltCompiler"
         THEN Produced("halt_compiler", halt_compiler(toks, s))
         ELSE mod_statement(toks, s),
         LAMBDA r : statement_epilogue(toks, r))

(***************************************************************************)
(* statement of src/parser/mod.rs, one call per behaviour (specification   *)
(* SpecStatement), and parse of src/parser/mod.rs, one loop iteration per  *)
(* step (specification SpecParse).                                         *)
(***************************************************************************)
StateNow == [pos |-> pos, attributes |-> state.attributes, scopes |-> state.scopes]

\* The parser state that a production left behind in its result r.
Leaves(r) ==
    /\ pos' = r.pos
    /\ state' = [attributes |-> r.attributes, scopes |-> r.scopes]
    /\ production' = r.production

\* The caller of a production whose result is r: Ok(statement) ends with the
\* statement, Err(e) with the error.
ReturnsOk(r) ==
    /\ r.st = "ok"
    /\ outcome' = "ok"
    /\ ast' = <<r.val>>
    /\ Leaves(r)
    /\ UNCHANGED <<scoped_releases_on_error, default_token_is_eof, tokens, err, raised, consumed>>

ReturnsErr(r) ==
    /\ r.st = "err"
    /\ outcome' = "err"
    /\ err' = r.err
    /\ Leaves(r)
    /\ UNCHANGED <<scoped_releases_on_error, default_token_is_eof, tokens, ast, raised, consumed>>

StatementOk ==
    /\ outcome = "running"
    /\ ReturnsOk(mod_statement(tokens, StateNow))

StatementErr ==
    /\ outcome = "running"
    /\ ReturnsErr(mod_statement(tokens, StateNow))

\* while !is_eof { if current is OpenTag(Full) or CloseTag { next; continue } .. }
ModParseSkipTag ==
    /\ outcome = "running"
    /\ current(tokens, pos).kind # "Eof"
    /\ current(tokens, pos) = OpenTag("Full") \/ current(tokens, pos).kind = "CloseTag"
    /\ pos' = stream_next(tokens, pos)
    /\ UNCHANGED <<scoped_releases_on_error, default_token_is_eof, tokens, ast, outcome, err, raised, consumed, state, production>>

\* ast.push(r) for the statement of an Ok result r; the loop goes on.
Pushes(r) ==
    /\ r.st = "ok"
    /\ ast' = Append(ast, r.val)
    /\ Leaves(r)
    /\ UNCHANGED <<scoped_releases_on_error, default_token_is_eof, tokens, outcome, err, raised, consumed>>

\* ast.push(top_level_statement(&mut state)?)
ModParseStatementOk ==
    /\ outcome = "running"
    /\ current(tokens, pos).kind # "Eof"
    /\ ~(current(tokens, pos) = OpenTag("Full") \/ current(tokens, pos).kind = "CloseTag")
    /\ Pushes(top_level_statement(tokens, StateNow))

ModParseStatementErr ==
    /\ outcome = "running"
    /\ current(tokens, pos).kind # "Eof"
    /\ ~(current(tokens, pos) = OpenTag("Full") \/ current(tokens, pos).kind = "CloseTag")
    /\ ReturnsErr(top_level_statement(tokens, StateNow))

\* Ok(ast.to_vec())
ModParseReturn ==
    /\ outcome = "running"
    /\ current(tokens, pos).kind = "Eof"
    /\ outcome' = "ok"
    /\ UNCHANGED <<scoped_releases_on_error, default_token_is_eof, tokens, pos, ast, err, raised, consumed, state, production>>

(***************************************************************************)
(* Inputs of statement and parse.                                          *)
(***************************************************************************)
AttributeGroup == <<T("Attribute"), Ident("A"), T("RightBracket")>>

\* Nothing, or one attribute group, before a statement.
AttributePrefixes == {<<>>, AttributeGroup}

DispatchAlphabet ==
    {T("Readonly"), T("Enum"), T("Function"), T("Class"), Ident("f"), T("LeftParen"),
     T("DoubleColon"), T("Colon"), T("Ampersand"), T("SemiColon"), T("CloseTag")}

EmptyBody == <<T("LeftBrace"), T("RightBrace")>>
EmptyFunction == <<T("LeftParen"), T("RightParen"), T("LeftBrace"), T("RightBrace")>>
CallOfOne == <<T("LeftParen"), IntTok("1"), T("RightParen"), T("SemiColon")>>

ClassStatements ==
    {<<T("Readonly")>> \o CallOfOne,
     <<T("Readonly"), T("Class"), Ident("Foo")>> \o EmptyBody,
     <<T("Abstract"), T("Class"), Ident("Foo")>> \o EmptyBody,
     <<T("Final"), T("Class"), Ident("Foo")>> \o EmptyBody,
     <<T("Final"), T("Final"), T("Class"), Ident("Foo")>> \o EmptyBody,
     <<T("Class"), Ident("Foo")>> \o EmptyBody,
     <<T("Interface"), Ident("I")>> \o EmptyBody}

EnumStatements ==
    {<<T("Enum"), Ident("E")>> \o EmptyBody,
     <<T("Enum")>> \o CallOfOne,
     <<T("Enum"), T("DoubleColon"), Ident("X"), T("SemiColon")>>,
     <<T("Enum"), T("Colon")>>,
     <<T("Enum"), T("Colon"), IntTok("1"), T("SemiColon")>>}

FunctionStatements ==
    {<<T("Function"), Ident("f")>> \o EmptyFunction,
     <<T("Function"), T("Enum")>> \o EmptyFunction,
     <<T("Function"), T("Ampersand"), Ident("f")>> \o EmptyFunction,
     <<T("Function")>> \o EmptyFunction \o <<T("SemiColon")>>,
     <<T("Function"), T("Ampersand")>> \o EmptyFunction \o <<T("SemiColon")>>,
     <<T("Function"), Ident("f"), T("LeftParen"), Var("a"), T("Comma"), Var("b"),
       T("RightParen"), T("LeftBrace"), T("Return"), Var("a"), T("Plus"), Var("b"),
       T("SemiColon"), T("Function"), T("Ampersand")>> \o EmptyFunction
       \o <<T("SemiColon"), T("CloseTag"), T("RightBrace")>>}

OtherStatements ==
    {<<T("Echo"), IntTok("1"), T("Comma"), IntTok("2"), T("SemiColon")>>,
     <<T("Echo"), T("SemiColon")>>,
     <<T("Echo"), IntTok("1"), T("Comma"), T("SemiColon")>>,
     <<OpenTag("Echo"), IntTok("1"), T("SemiColon")>>,
     <<T("Return"), T("SemiColon")>>,
     <<T("Return"), Var("a"), T("Minus"), IntTok("1"), T("SemiColon")>>,
     <<T("SemiColon")>>,
     <<T("LeftBrace"), IntTok("1"), T("SemiColon"), T("CloseTag"), T("RightBrace")>>,
     <<T("Goto"), Ident("a"), T("SemiColon")>>,
     <<Ident("a"), T("Colon")>>,
     <<T("Declare"), T("LeftParen"), Ident("a"), T("Equals"), IntTok("1"), T("RightParen"),
       T("SemiColon")>>,
     <<T("Declare"), T("LeftParen"), Ident("a"), T("Equals"), IntTok("1"), T("RightParen"),
       T("Colon"), T("SemiColon"), T("EndDeclare"), T("SemiColon")>>,
     <<T("Global"), Var("a"), T("Comma"), Var("b"), T("SemiColon")>>,
     <<T("Static"), Var("a"), T("Equals"), IntTok("1"), T("SemiColon")>>,
     <<Html("h"), OpenTag("Full")>>,
     <<T("HaltCompiler"), Html("h")>>,
     <<Ident("f"), T("LeftParen"), Var("a"), T("Comma"), T("RightParen"), T("SemiColon")>>}

\* Statements of the control-flow arms, whole and cut short.
ParenthesizedOne == <<T("LeftParen"), IntTok("1"), T("RightParen")>>

ControlStatements ==
    {<<T("If")>> \o ParenthesizedOne \o EmptyBody,
     <<T("If")>> \o ParenthesizedOne \o EmptyBody \o <<T("Else"), T("SemiColon")>>,
     <<T("If")>> \o ParenthesizedOne \o <<T("Colon"), T("SemiColon"), T("EndIf"),
                                           T("SemiColon")>>,
     <<T("If"), T("Colon")>>,
     <<T("If"), T("SemiColon")>>,
     <<T("While")>> \o ParenthesizedOne \o EmptyBody,
     <<T("While")>> \o ParenthesizedOne \o <<T("Colon"), T("EndWhile"), T("SemiColon")>>,
     <<T("While")>> \o ParenthesizedOne,
     <<T("Do"), T("SemiColon"), T("While")>> \o ParenthesizedOne \o <<T("SemiColon")>>,
     <<T("For"), T("LeftParen"), T("SemiColon"), T("SemiColon"), T("RightParen"),
       T("SemiColon")>>,
     <<T("Foreach"), T("LeftParen"), Var("a"), T("As"), Var("k"), T("DoubleArrow"),
       T("Ampersand"), Var("v"), T("RightParen")>> \o EmptyBody,
     <<T("Break"), T("SemiColon")>>,
     <<T("Break"), IntTok("2"), T("SemiColon")>>,
     <<T("Break")>>,
     <<T("Continue"), T("SemiColon")>>,
     <<T("Continue"), T("Colon")>>,
     <<T("Switch")>> \o ParenthesizedOne
        \o <<T("LeftBrace"), T("Case"), IntTok("1"), T("Colon"), T("Break"), T("SemiColon"),
             T("Default"), T("Colon"), T("RightBrace")>>,
     <<T("Try")>> \o EmptyBody \o <<T("Finally")>> \o EmptyBody,
     <<T("Try")>> \o EmptyBody
        \o <<T("Catch"), T("LeftParen"), Ident("E"), Var("e"), T("RightParen")>> \o EmptyBody,
     <<T("Try")>> \o EmptyBody}

\* Statements of the arms that only top_level_statement has.
TopLevelStatements ==
    {<<T("Namespace"), Ident("A"), T("SemiColon")>>,
     <<T("Namespace"), Ident("A"), T("SemiColon"), T("Class"), Ident("Foo")>> \o EmptyBody,
     <<T("Namespace"), Ident("A"), T("LeftBrace"), T("Echo"), IntTok("1"), T("SemiColon"),
       T("RightBrace")>>,
     <<T("Namespace"), T("LeftBrace"), T("Echo"), IntTok("1"), T("RightBrace")>>,
     <<T("Namespace"), T("SemiColon")>>,
     <<T("Use"), Ident("A"), T("SemiColon")>>,
     <<T("Use"), T("Function"), Ident("A"), T("As"), Ident("B"), T("Comma"), Ident("C"),
       T("SemiColon")>>,
     <<T("Use"), Ident("A"), T("Comma"), T("SemiColon")>>,
     <<T("Const"), Ident("X"), T("Equals"), IntTok("1"), T("SemiColon")>>,
     <<T("Const"), Ident("X"), T("SemiColon")>>}

\* The members of a trait body.
TraitMembers ==
    {<<T("Use"), Ident("A"), T("SemiColon")>>,
     <<T("Use"), Ident("A"), T("LeftBrace"), Ident("m"), T("As"), T("Public"),
       T("SemiColon"), T("RightBrace")>>,
     <<T("Var"), Var("a"), T("SemiColon")>>,
     <<T("Public"), Var("a"), T("Equals"), IntTok("1"), T("SemiColon")>>,
     <<T("Const"), Ident("X"), T("Equals"), IntTok("1"), T("SemiColon")>>,
     <<T("Function"), Ident("f")>> \o EmptyFunction,
     <<T("Public"), T("Static"), T("Function"), Ident("f")>> \o EmptyFunction,
     <<T("Abstract"), T("Function"), Ident("f"), T("LeftParen"), T("RightParen"),
       T("SemiColon")>>,
     <<T("Public"), T("Public"), T("Function"), Ident("f")>> \o EmptyFunction,
     <<T("Abstract"), T("Final"), T("Function"), Ident("f")>> \o EmptyFunction,
     AttributeGroup \o <<T("Use"), Ident("A"), T("SemiColon")>>,
     AttributeGroup \o <<T("Function"), Ident("f")>> \o EmptyFunction,
     AttributeGroup \o <<T("Var"), Var("a"), T("SemiColon")>>,
     AttributeGroup \o AttributeGroup \o <<T("Static"), Var("a"), T("SemiColon")>>}

RECURSIVE TraitBodies(_)
TraitBodies(k) ==
    IF k = 0 THEN {<<>>}
    ELSE {b \o m : b \in TraitBodies(k - 1), m \in TraitMembers}

TraitStatements ==
    {<<T("Trait"), Ident("T"), T("LeftBrace")>> \o b \o <<T("RightBrace")>>
        : b \in UNION {TraitBodies(k) : k \in 0..MaxMembers}}

\* A trait declaration cut short, and one with a body that does not end.
Prefixes(toks) == {SubSeq(toks, 1, n) : n \in 0..Len(toks)}

TraitPrefixes ==
    UNION {Prefixes(<<T("Trait"), Ident("T"), T("LeftBrace")>> \o m \o <<T("RightBrace")>>)
            : m \in TraitMembers}

WholeStatements ==
    ClassStatements \cup EnumStatements \cup FunctionStatements \cup OtherStatements
    \cup ControlStatements \cup TopLevelStatements

StatementInputs ==
    {a \o st \o c : a \in AttributePrefixes,
                    st \in SeqsUpTo(DispatchAlphabet, MaxLen) \cup WholeStatements
                           \cup TraitStatements \cup TraitPrefixes,
                    c \in {<<>>, <<T("CloseTag")>>}}

InitStatement ==
    /\ tokens \in StatementInputs
    /\ pos = 1
    /\ ast = <<>>
    /\ outcome = "running"
    /\ err = NoError
    /\ raised = NoError
    /\ consumed = {}
    /\ state = [attributes |-> <<>>, scopes |-> <<>>]
    /\ production = ""
    /\ scoped_releases_on_error \in BOOLEAN
    /\ default_token_is_eof \in BOOLEAN

NextStatement ==
    \/ StatementOk
    \/ StatementErr

SpecStatement == InitStatement /\ [][NextStatement]_vars

\* Programs: statements one after the other, with tags around them.
SequencedStatements ==
    {<<T("Class"), Ident("Foo")>> \o EmptyBody,
     AttributeGroup \o <<T("Function"), Ident("f")>> \o EmptyFunction,
     AttributeGroup \o <<T("Function"), T("Ampersand")>> \o EmptyFunction
        \o <<T("SemiColon"), T("CloseTag")>>,
     AttributeGroup \o <<T("Trait"), Ident("T"), T("LeftBrace")>>
        \o AttributeGroup \o <<T("Function"), Ident("f")>> \o EmptyFunction
        \o <<T("RightBrace")>>,
     <<T("Echo"), IntTok("1"), T("SemiColon"), T("CloseTag"), Html("h"), OpenTag("Full")>>,
     <<T("Enum")>> \o CallOfOne,
     <<T("Use"), Ident("A"), T("SemiColon")>>,
     <<T("While")>> \o ParenthesizedOne \o <<T("Break"), T("SemiColon")>>}

RECURSIVE Programs(_)
Programs(k) ==
    IF k = 0 THEN {<<>>}
    ELSE {prog \o st : prog \in Programs(k - 1), st \in SequencedStatements}

ProgramInputs ==
    {<<OpenTag("Full")>> \o prog : prog \in UNION {Programs(k) : k \in 0..MaxMembers}}
    \cup {a \o st \o c : a \in AttributePrefixes,
                         st \in WholeStatements \cup TraitStatements \cup TraitPrefixes,
                         c \in {<<>>, <<T("CloseTag")>>}}
    \cup SeqsUpTo(DispatchAlphabet, MaxLen)

InitParse ==
    /\ tokens \in ProgramInputs
    /\ pos = 1
    /\ ast = <<>>
    /\ outcome = "running"
    /\ err = NoError
    /\ raised = NoError
    /\ consumed = {}
    /\ state = [attributes |-> <<>>, scopes |-> <<>>]
    /\ production = ""
    /\ scoped_releases_on_error \in BOOLEAN
    /\ default_token_is_eof \in BOOLEAN

NextParse ==
    \/ ModParseSkipTag
    \/ ModParseStatementOk
    \/ ModParseStatementErr
    \/ ModParseReturn

SpecParse == InitParse /\ [][NextParse]_vars

(***************************************************************************)
(* Claims about statement of src/parser/mod.rs.                            *)
(***************************************************************************)
\* The index of the first `]` at or after p.
RECURSIVE GroupEnd(_, _)
GroupEnd(toks, p) ==
    IF p > Len(toks) \/ toks[p].kind = "RightBracket" THEN p ELSE GroupEnd(toks, p + 1)

\* The index of the token the dispatcher matches on: the first token after
\* the attribute groups and an open tag.
RECURSIVE AfterGroups(_, _)
AfterGroups(toks, p) ==
    IF p <= Len(toks) /\ toks[p].kind = "Attribute"
    THEN AfterGroups(toks, GroupEnd(toks, p) + 1)
    ELSE p

DispatchAt(toks) ==
    IF current(toks, AfterGroups(toks, 1)).kind = "OpenTag"
    THEN AfterGroups(toks, 1) + 1
    ELSE AfterGroups(toks, 1)

DispatchKind == current(tokens, DispatchAt(tokens)).kind
FollowerKind == current(tokens, DispatchAt(tokens) + 1).kind
HasAttributes == current(tokens, 1).kind = "Attribute"

\* The last token the statement consumed, a close tag after it apart.
LastOfStatement ==
    IF current(tokens, pos - 1).kind = "CloseTag"
    THEN current(tokens, pos - 2) ELSE current(tokens, pos - 1)

\* The statement was dispatched to the expression-statement production and,
\* when it succeeded, is an expression statement ended by its `;`.
IsExpressionStatement ==
    /\ production = "expression"
    /\ outcome = "ok" =>
          /\ ast[1].kind = "Expression"
          /\ LastOfStatement.kind = "SemiColon"

\* C11: statement dispatches to the class production when the current token
\* is abstract, final, class, or readonly not followed by `(`; readonly
\* followed by `(` is parsed as a `;`-terminated expression statement and
\* never as a class declaration, with and without attributes before it;
\* readonly(1); is a call of readonly with the argument 1.
C11_ClassDispatch ==
    production # "" =>
        /\ (\/ DispatchKind \in {"Abstract", "Final", "Class"}
            \/ (DispatchKind = "Readonly" /\ FollowerKind # "LeftParen")) =>
              /\ production = "class"
              /\ outcome = "ok" => ast[1].kind = "Class"
        /\ (DispatchKind = "Readonly" /\ FollowerKind = "LeftParen") =>
              /\ IsExpressionStatement
              /\ outcome = "ok" => ast[1].kind # "Class"
        /\ tokens = <<T("Readonly")>> \o CallOfOne =>
              /\ outcome = "ok"
              /\ ast = <<[kind |-> "Expression",
                          expr |-> [kind |-> "Call",
                                    target |-> [kind |-> "Identifier", name |-> "Readonly"],
                                    args |-> <<[kind |-> "Int", value |-> "1"]>>]]>>

C11_Witness ==
    /\ outcome = "ok"
    /\ production = "expression"
    /\ DispatchKind = "Readonly"
    /\ FollowerKind = "LeftParen"
    /\ ast[1].expr.kind = "Call"

EnumExpressionFollowers == {"LeftParen", "DoubleColon", "Colon"}

\* C12 as stated: when the current token is enum, statement dispatches to
\* the enum declaration if and only if the next token is none of `(`, `::`,
\* `:`; in each of those three cases the statement is parsed as an
\* expression statement, with or without attributes before it.
C12_EnumDispatch ==
    (production # "" /\ DispatchKind = "Enum") =>
        /\ production = "enum" <=> FollowerKind \notin EnumExpressionFollowers
        /\ FollowerKind \in EnumExpressionFollowers => IsExpressionStatement

\* C12 amended: when the current token is enum, statement dispatches to the
\* enum declaration if and only if the next token is none of `(`, `::`, `:`;
\* followed by `(` or `::` the statement is parsed as an expression
\* statement, with or without attributes; followed by `:` it is parsed as a
\* label statement without attributes and as an expression statement with
\* attributes.
C12_EnumDispatchAmended ==
    (production # "" /\ DispatchKind = "Enum") =>
        /\ production = "enum" <=> FollowerKind \notin EnumExpressionFollowers
        /\ production = "enum" /\ outcome = "ok" => ast[1].kind = "Enum"
        /\ FollowerKind \in {"LeftParen", "DoubleColon"} => IsExpressionStatement
        /\ (FollowerKind = "Colon" /\ HasAttributes) => IsExpressionStatement
        /\ (FollowerKind = "Colon" /\ ~HasAttributes) =>
              /\ production = "label"
              /\ outcome = "ok"
              /\ ast = <<[kind |-> "Label", label |-> "Enum"]>>
              /\ LastOfStatement.kind = "Colon"

C12_Witness ==
    /\ outcome = "ok"
    /\ DispatchKind = "Enum"
    /\ FollowerKind = "Colon"
    /\ production = "label"
    /\ Len(tokens) > pos

\* The kind of the token at cursor + 2 when the dispatcher matches.
SecondFollowerKind == current(tokens, DispatchAt(tokens) + 2).kind

IsNameKind(k) == k \in {"Identifier", "Enum", "Readonly", "From"}

\* The statement was dispatched as a closure expression statement.
IsClosureStatement ==
    /\ production \in {"closure", "expression"}
    /\ outcome = "ok" =>
          /\ ast[1].kind = "Expression"
          /\ ast[1].expr.kind = "Closure"

\* C13: when the current token is function: followed by an identifier
\* (possibly soft-reserved) the statement is a function declaration;
\* followed by `&` and then an identifier it is a by-reference function
\* declaration; followed by `(`, or by `&` and no identifier, it is a closure
\* expression statement.  The `&` case is decided on the token at cursor + 2.
C13_FunctionDispatch ==
    (production # "" /\ DispatchKind = "Function") =>
        /\ IsNameKind(FollowerKind) =>
              /\ production = "function"
              /\ outcome = "ok" => (ast[1].kind = "Function" /\ ~ast[1].by_ref)
        /\ (FollowerKind = "Ampersand" /\ IsNameKind(SecondFollowerKind)) =>
              /\ production = "function"
              /\ outcome = "ok" => (ast[1].kind = "Function" /\ ast[1].by_ref)
        /\ (\/ FollowerKind = "LeftParen"
            \/ (FollowerKind = "Ampersand" /\ ~IsNameKind(SecondFollowerKind))) =>
              IsClosureStatement

\* C14: on every successful return from statement, through every dispatch
\* branch, a close tag that immediately follows the production's last token
\* has been consumed: the cursor never rests on the close tag that directly
\* followed the statement.
C14_CloseTagConsumed ==
    outcome = "ok" =>
        ~(/\ current(tokens, pos).kind = "CloseTag"
          /\ current(tokens, pos - 1).kind # "CloseTag")

(***************************************************************************)
(* Claims about parse of src/parser/mod.rs and traits::parse.              *)
(***************************************************************************)
\* The index of the last `#[` before p.
RECURSIVE GroupStart(_, _)
GroupStart(toks, p) ==
    IF p <= 1 \/ toks[p - 1].kind = "Attribute" THEN p - 1 ELSE GroupStart(toks, p - 1)

\* The number of attribute groups that end right before token p.
RECURSIVE GroupsBefore(_, _)
GroupsBefore(toks, p) ==
    IF p > 1 /\ toks[p - 1].kind = "RightBracket"
    THEN 1 + GroupsBefore(toks, GroupStart(toks, p - 1))
    ELSE 0

\* C15: after every successful top_level_statement the attribute buffer is
\* empty: the groups gathered before a statement are drained by the
\* production that follows (traits::parse moves them into the Trait node
\* before its body is parsed) and never stay for a later statement or member.
C15_AttributesDrained ==
    outcome \in {"running", "ok"} =>
        /\ state.attributes = <<>>
        /\ \A i \in 1..Len(ast) :
              ast[i].kind = "Trait" =>
                  Len(ast[i].attributes) = GroupsBefore(tokens, ast[i].start)

C15_Witness ==
    /\ outcome = "ok"
    /\ Len(ast) = 2
    /\ ast[2].kind = "Trait"
    /\ Len(ast[2].attributes) = 1
    /\ Len(ast[2].members) = 1
    /\ Len(ast[2].members[1].attributes) = 1
    /\ state.attributes = <<>>

(***************************************************************************)
(* Claims about modifiers, echo, termination and spans.                    *)
(***************************************************************************)
NoDuplicates(seq) == Cardinality(Elements(seq)) = Len(seq)

\* A run of modifier tokens in the input names some modifier twice.
HasDuplicateRun(toks) ==
    \E i \in 1..Len(toks) :
        /\ toks[i].kind = "Function"
        /\ ~NoDuplicates(ModifierRun(toks, i))

\* C17: a modifier keyword that appears twice in the run of modifiers before
\* a member is rejected with a DuplicateModifier error; no method is ever
\* produced whose modifier list holds the same modifier twice.
C17_NoDuplicateModifier ==
    /\ outcome = "ok" =>
          \A i \in 1..Len(ast) :
              /\ ast[i].kind = "Method" => NoDuplicates(ast[i].flags)
              /\ ast[i].kind = "Class" =>
                    \A j \in 1..Len(ast[i].body) : NoDuplicates(ast[i].body[j].flags)
    /\ (outcome # "running" /\ HasClassHeader(tokens) /\ HasDuplicateRun(tokens)) =>
          outcome = "err"

\* Number of `(` open before token i.
ParenDepth(toks, i) ==
    Cardinality({j \in 1..(i - 1) : toks[j].kind = "LeftParen"})
    - Cardinality({j \in 1..(i - 1) : toks[j].kind = "RightParen"})

\* The separating commas of the echo statement that is the whole input.
EchoCommas(toks) ==
    {i \in 2..Len(toks) : toks[i].kind = "Comma" /\ ParenDepth(toks, i) = 0}

\* C18: an echo statement yields exactly its comma-separated expressions in
\* source order: on success values is non-empty and its length is the number
\* of separating commas plus one, so `echo;` and `echo 1,;` are rejected.
C18_EchoValues ==
    (outcome = "ok" /\ Len(ast) = 1 /\ current(tokens, 1).kind = "Echo") =>
        /\ ast[1].kind = "Echo"
        /\ Len(ast[1].values) >= 1
        /\ Len(ast[1].values) = Cardinality(EchoCommas(tokens)) + 1

\* The visibility modifiers of the adaptations produced.
VisibilityNodes ==
    {ast[1].adaptations[k].visibility :
        k \in {j \in 1..Len(ast[1].adaptations) : ast[1].adaptations[j].kind = "Visibility"}}
    \cup
    {ast[1].adaptations[k].visibility[1] :
        k \in {j \in 1..Len(ast[1].adaptations) :
                 /\ ast[1].adaptations[j].kind = "Alias"
                 /\ ast[1].adaptations[j].visibility # <<>>}}

\* C20: the span of the visibility modifier of a trait-use adaptation has
\* both endpoints on the visibility keyword, the only token consumed for the
\* node: its end is not the span of the token that follows.
C20_VisibilitySpan ==
    outcome = "ok" =>
        \A v \in VisibilityNodes :
            /\ tokens[v.start].kind = v.kind
            /\ v.end = v.start

\* A production that returns Ok from cursor p returns with the cursor after
\* p and within the stream.
Advances(r, p) == r.st = "ok" => r.pos > p /\ r.pos <= Len(tokens) + 1

\* The productions the loops of Parser::parse, parser::parse, traits::parse
\* and traits::usage call once per iteration, from every cursor of the input.
ProductionsAdvance ==
    \A p \in 1..(Len(tokens) + 1) :
        /\ Advances(statement(tokens, p), p)
        /\ Advances(expression(tokens, p, 0), p)
        /\ Advances(usage(tokens, p), p)
        /\ Advances(top_level_statement(tokens, NewState(p)), p)
        /\ Advances(member(tokens, NewState(p), "T"), p)

\* Advancing at Eof leaves the stream at Eof.
EofIsStable ==
    /\ is_eof(tokens, Len(tokens) + 1)
    /\ next(tokens, Len(tokens) + 1) = Len(tokens) + 1

\* C19: parse terminates on every finite token sequence: every iteration of
\* the top-level loop either advances the cursor by at least one token or
\* returns an error, the last one returning at Eof; every production a loop
\* calls once per iteration returns Ok only with the cursor advanced; the
\* cursor never moves back or past Eof, and advancing at Eof leaves the
\* stream at Eof.
C19_Terminates ==
    [][/\ \/ pos' > pos
          \/ outcome' = "err"
          \/ outcome' = "ok" /\ parse_loop_ends(tokens, pos)
       /\ pos' >= pos
       /\ pos' <= Len(tokens) + 1
       /\ ProductionsAdvance
       /\ EofIsStable]_vars

\* a < b < c: three operands with two comparison operators between them
IsComparisonChain(toks) ==
    /\ IsChain(toks)
    /\ Len(toks) = 5
    /\ toks[2].kind = "LessThan"
    /\ toks[4].kind = "LessThan"

\* The two groupings of a o1 b o2 c: (a o1 b) o2 c and a o1 (b o2 c).
LeftGrouping(toks) ==
    InfixNode(InfixNode(AtomNode(toks[1]), toks[2], AtomNode(toks[3])),
              toks[4], AtomNode(toks[5]))

RightGrouping(toks) ==
    InfixNode(AtomNode(toks[1]), toks[2],
              InfixNode(AtomNode(toks[3]), toks[4], AtomNode(toks[5])))

\* C21: comparison operators are non-associative: a single comparison a < b
\* is accepted as Infix(a, <, b), and a chain of two comparisons without
\* parentheses, a < b < c, is not accepted as a nested Infix in either
\* grouping.
C21_ComparisonsNonAssociative ==
    outcome # "running" =>
        /\ (/\ IsChain(tokens)
            /\ Len(tokens) = 3
            /\ tokens[2].kind = "LessThan") =>
              /\ outcome = "ok"
              /\ ast = <<ExprStmt(InfixNode(AtomNode(tokens[1]), tokens[2],
                                            AtomNode(tokens[3])))>>
        /\ IsComparisonChain(tokens) =>
              ~(/\ outcome = "ok"
                /\ ast \in {<<ExprStmt(LeftGrouping(tokens))>>,
                            <<ExprStmt(RightGrouping(tokens))>>})

====
